---- MODULE Spec2Model ----
(***************************************************************************)
(* A model of the hue-kai palette engine (src/utils/colorUtils.ts, lines   *)
(* 1-710: the current revision of the engine) and of the image extractor   *)
(* page that uses its conversion layer, as a state machine.                *)
(*                                                                         *)
(* Numbers.  The engine computes on JavaScript doubles.  Every value the   *)
(* engine handles is a rational with a small denominator, so the model     *)
(* keeps hue as an integer count of 1/hu degrees and saturation/lightness  *)
(* as integer counts of 1/su percent, where (hu, su) is fixed per          *)
(* generated candidate by the strategy that runs (hUnit, slUnit).  All     *)
(* arithmetic is exact; Math.round is round-half-up.  Two things are not   *)
(* modelled: the noise of IEEE-754 doubles at exact .5 ties, and the       *)
(* irrational golden-ratio step, which is kept to 1/GoldenDen degree.      *)
(*                                                                         *)
(* Randomness.  Math.random() is a tape of numerators over RandDen that    *)
(* the caller of generatePalette supplies; each Math.random() call reads   *)
(* the next entry (the tape is read cyclically).                           *)
(***************************************************************************)
EXTENDS Integers, Sequences, FiniteSets, TLC

\* ---------------------------------------------------------------- numbers

Min2(a, b) == IF a < b THEN a ELSE b

Max2(a, b) == IF a > b THEN a ELSE b

Abs(a) == IF a < 0 THEN -a ELSE a

\* Math.round(num / den), for num >= 0 and den > 0
Round(num, den) == (num \div den) + (IF 2 * (num % den) >= den THEN 1 ELSE 0)

clamp(val, min, max) == Min2(max, Max2(min, val))

\* the JavaScript remainder a % m (m > 0): it keeps the sign of a
JsRem(a, m) == IF a >= 0 THEN a % m ELSE -((-a) % m)

\* ------------------------------------------------------- conversion layer

HexChars == <<"0", "1", "2", "3", "4", "5", "6", "7",
              "8", "9", "a", "b", "c", "d", "e", "f">>

UpperChars == <<"0", "1", "2", "3", "4", "5", "6", "7",
                "8", "9", "A", "B", "C", "D", "E", "F">>

\* Number.prototype.toString(16) of an integer
RECURSIVE toString16(_)
toString16(c) ==
    IF c < 0 THEN <<"-">> \o toString16(-c)
    ELSE IF c < 16 THEN <<HexChars[c + 1]>>
    ELSE toString16(c \div 16) \o <<HexChars[(c % 16) + 1]>>

componentToHex(c) ==
    LET hex == toString16(c)
    IN  IF Len(hex) = 1 THEN <<"0">> \o hex ELSE hex

rgbToHex(r, g, b) ==
    <<"#">> \o componentToHex(r) \o componentToHex(g) \o componentToHex(b)

\* the value of each hex digit, either case
HexDigits ==
    [ch \in {HexChars[k] : k \in 1..16} \cup {UpperChars[k] : k \in 1..16} |->
        IF \E k \in 1..16 : HexChars[k] = ch
        THEN (CHOOSE k \in 1..16 : HexChars[k] = ch) - 1
        ELSE (CHOOSE k \in 1..16 : UpperChars[k] = ch) - 1]

\* the value of one hex digit; -1 when the character is none
HexVal(ch) == IF ch \in DOMAIN HexDigits THEN HexDigits[ch] ELSE -1

\* String.prototype.toUpperCase on a hex string
toUpperCase(hex) ==
    [k \in 1..Len(hex) |->
        IF HexVal(hex[k]) >= 0 THEN UpperChars[HexVal(hex[k]) + 1] ELSE hex[k]]

\* /^#?([a-f\d]{2})([a-f\d]{2})([a-f\d]{2})$/i ; no match gives black
hexToRgb(hex) ==
    LET body == IF Len(hex) > 0 /\ hex[1] = "#" THEN Tail(hex) ELSE hex
        ok   == Len(body) = 6 /\ \A k \in 1..6 : HexVal(body[k]) >= 0
        v(k) == 16 * HexVal(body[k]) + HexVal(body[k + 1])
    IN  IF ok THEN [r |-> v(1), g |-> v(3), b |-> v(5)]
        ELSE [r |-> 0, g |-> 0, b |-> 0]

Max3(a, b, c) == Max2(a, Max2(b, c))

Min3(a, b, c) == Min2(a, Min2(b, c))

\* rgbToHsl on integer channels 0..255: the three roundings of the source,
\* with the common factor 1/255 cancelled
rgbToHsl(r, g, b) ==
    LET max == Max3(r, g, b)
        min == Min3(r, g, b)
        d   == max - min
        l   == Round(100 * (max + min), 510)
        s   == IF max + min > 255 THEN Round(100 * d, 510 - max - min)
                                  ELSE Round(100 * d, max + min)
        h   == IF max = r THEN Round(60 * (g - b) + (IF g < b THEN 360 * d ELSE 0), d)
               ELSE IF max = g THEN Round(60 * (b - r) + 120 * d, d)
               ELSE Round(60 * (r - g) + 240 * d, d)
    IN  IF max = min THEN [h |-> 0, s |-> 0, l |-> l]
        ELSE [h |-> h, s |-> s, l |-> l]

\* one channel Math.round(255 * f(n)) of hslToRgb; h counts 1/hu degrees,
\* s and l count 1/su percent; k is k(n) in units of 1/(30 hu)
hslChannel(n, h, s, l, hu, su) ==
    LET k == JsRem(n * 30 * hu + h, 360 * hu)
        t == Max2(-30 * hu, Min2(k - 90 * hu, Min2(270 * hu - k, 30 * hu)))
        a == s * Min2(l, 100 * su - l)
    IN  Round(17 * (3000 * su * hu * l - a * t), 20000 * su * su * hu)

hslToRgbIn(h, s, l, hu, su) ==
    [r |-> hslChannel(0, h, s, l, hu, su),
     g |-> hslChannel(8, h, s, l, hu, su),
     b |-> hslChannel(4, h, s, l, hu, su)]

\* hslToRgb on whole degrees and percents
hslToRgb(h, s, l) == hslToRgbIn(h, s, l, 1, 1)

\* createColorData: the display record (the cmyk string is left out)
createColorData(hex) ==
    LET rgb == hexToRgb(hex)
    IN  [hex |-> toUpperCase(hex),
         rgb |-> <<rgb.r, rgb.g, rgb.b>>,
         hsl |-> rgbToHsl(rgb.r, rgb.g, rgb.b),
         locked |-> FALSE]


\* ------------------------------------------------------------------ state

VARIABLES
    globalHistory,     \* Set<string> of recent hex values, in insertion order
    recentBaseHues,    \* number[]: recent base hues
    recentSignatures,  \* string[]: recent palette signatures
    pc,                \* where the running generatePalette call is
    mode,              \* arguments of the running (or last) call
    count,
    baseColor,
    attempt,           \* loop variable of the retry loop
    vibe,              \* locals of generateCandidate
    base,
    st,
    i,
    palette,
    paletteColors,
    result,            \* the last value generateCandidate returned
    rand,              \* the Math.random() tape and the read position
    calls,             \* number of generatePalette calls made so far
    probe,             \* the last application of an exported pure function
    imageData,         \* the pixel buffer of the image the extractor loaded last
    allCandidates,     \* state of the ImageExtractor component
    colorCount,
    extractorPalette,  \* the component's palette state
    imageSrc,          \* the image the extractor page shows, or none
    readers,           \* the files whose FileReader has not called onload yet
    loadingImages,     \* the images whose img.onload has not run yet
    pageColors,        \* the colors state of the Generator component
    pageCount,         \* its count state
    timers,            \* the regenerations whose timeout has not fired yet
    updater            \* the setColors updater that is running, if one is

\* the engine's module state and the locals of a generatePalette call
engineVars == <<globalHistory, recentBaseHues, recentSignatures, pc, mode, count,
                baseColor, attempt, vibe, base, st, i, palette, paletteColors,
                result, rand, calls>>

\* the state of the ImageExtractor component
extractorVars == <<imageData, allCandidates, colorCount, extractorPalette>>

\* the files and images the extractor page is waiting for
uploadVars == <<imageSrc, readers, loadingImages>>

\* the state of the Generator component
generatorVars == <<pageColors, pageCount, timers, updater>>

vars == <<engineVars, probe, extractorVars, uploadVars, generatorVars>>

\* ------------------------------------------------------------- randomness

\* Math.random() returns n / RandDen, n in 0..RandDen-1
RandDen == 100

\* the k-th next value of Math.random() on the stream r
Draw(r, k) == r.tape[((r.pos + k) % Len(r.tape)) + 1]

\* the k-th next value of Math.random()
Rnd(k) == Draw(rand, k)

\* Math.floor(Math.random() * (max - min) + min), reading draw k
randomInt(min, max, k) == min + ((Rnd(k) * (max - min)) \div RandDen)

\* Math.random() < prob, prob in percent, reading draw k
chance(prob, k) == Rnd(k) * 100 < prob * RandDen

\* the tape position after n draws
Advance(n) == [rand EXCEPT !.pos = (rand.pos + n) % Len(rand.tape)]

\* ------------------------------------------------- anti-repetition memory

HISTORY_LIMIT == 60

BASE_HUE_LIMIT == 5

SIGNATURE_LIMIT == 30

Range(seq) == {seq[k] : k \in 1..Len(seq)}

\* a registration that never evicts
registerColorUnbounded(history, hex) ==
    IF hex \in Range(history) THEN history ELSE Append(history, hex)

\* Set.add keeps the place of a value it already holds; the first value in
\* insertion order is deleted once the size exceeds the limit
registerColor(history, hex) ==
    LET added == IF hex \in Range(history) THEN history ELSE Append(history, hex)
    IN  IF Len(added) > HISTORY_LIMIT THEN Tail(added) ELSE added

registerBaseHue(hues, h) ==
    LET pushed == Append(hues, h)
    IN  IF Len(pushed) > BASE_HUE_LIMIT THEN Tail(pushed) ELSE pushed

\* a registration that drops the signature
registerNothing(sigs, sig) == sigs

registerSignature(sigs, sig) ==
    LET pushed == Append(sigs, sig)
    IN  IF Len(pushed) > SIGNATURE_LIMIT THEN Tail(pushed) ELSE pushed

isHueRecentlyUsed(hues, h) ==
    \E k \in 1..Len(hues) :
        Min2(Abs(h - hues[k]), 360 - Abs(h - hues[k])) < 30

\* ------------------------------------------------------------------ vibes

getWeightedVibe(k) ==
    LET r == Rnd(k) * 100
    IN  IF r < 40 * RandDen
        THEN [name |-> "vivid", sMin |-> 70, sMax |-> 100, lMin |-> 40, lMax |-> 65]
        ELSE IF r < 65 * RandDen
        THEN [name |-> "bright", sMin |-> 60, sMax |-> 90, lMin |-> 70, lMax |-> 90]
        ELSE IF r < 80 * RandDen
        THEN [name |-> "deep", sMin |-> 40, sMax |-> 80, lMin |-> 15, lMax |-> 35]
        ELSE IF r < 90 * RandDen
        THEN [name |-> "dynamic", sMin |-> 20, sMax |-> 100, lMin |-> 20, lMax |-> 90]
        ELSE IF r < 95 * RandDen
        THEN [name |-> "pastel", sMin |-> 30, sMax |-> 60, lMin |-> 85, lMax |-> 96]
        ELSE [name |-> "muted", sMin |-> 5, sMax |-> 30, lMin |-> 40, lMax |-> 70]

\* -------------------------------------------------------------- similarity

\* areColorsTooSimilar on values counted in 1/hu degrees and 1/su percent
areColorsTooSimilar(h1, s1, l1, h2, s2, l2, hu, su) ==
    LET hDiff == Min2(Abs(h1 - h2), 360 * hu - Abs(h1 - h2))
        sDiff == Abs(s1 - s2)
        lDiff == Abs(l1 - l2)
    IN  IF hDiff < 10 * hu
        THEN IF s1 < 10 * su /\ s2 < 10 * su
             THEN lDiff < 15 * su
             ELSE lDiff < 20 * su /\ sDiff < 20 * su
        ELSE IF hDiff < 30 * hu
        THEN lDiff < 15 * su /\ sDiff < 15 * su
        ELSE FALSE


\* ----------------------------------------------------- palette signature

hslOf(c) == LET rgb == hexToRgb(c.hex) IN rgbToHsl(rgb.r, rgb.g, rgb.b)

\* the place of a role in the order of Array.prototype.sort() on strings
RoleRank(role) ==
    CASE role = "D" -> 1 [] role = "L" -> 2 [] role = "M" -> 3
      [] role = "ND" -> 4 [] role = "NL" -> 5 [] role = "NM" -> 6
      [] role = "V" -> 7

roleOf(hsl) ==
    IF hsl.s < 12
    THEN (IF hsl.l < 30 THEN "ND" ELSE IF hsl.l > 70 THEN "NL" ELSE "NM")
    ELSE (IF hsl.s > 75 THEN "V" ELSE IF hsl.l < 30 THEN "D"
          ELSE IF hsl.l > 70 THEN "L" ELSE "M")

\* the subsequence of seq at the places where keep holds
RECURSIVE Filter(_, _)
Filter(seq, keep) ==
    IF seq = <<>> THEN <<>>
    ELSE (IF keep[1] THEN <<Head(seq)>> ELSE <<>>)
         \o Filter(Tail(seq), Tail(keep))

\* a signature that joins the fields in palette order
signatureUnsorted(colors) ==
    LET n     == Len(colors)
        hsls  == [x \in 1..n |-> hslOf(colors[x])]
        ls    == {hsls[x].l : x \in 1..n}
        minL  == IF n = 0 THEN 100 ELSE CHOOSE v \in ls : \A w \in ls : v <= w
        maxL  == IF n = 0 THEN 0 ELSE CHOOSE v \in ls : \A w \in ls : v >= w
        chrom == [x \in 1..n |-> ~(hsls[x].s < 12)]
    IN  [H |-> Filter([x \in 1..n |-> hsls[x].h \div 15], chrom),
         S |-> [x \in 1..n |-> hsls[x].s \div 20],
         L |-> [x \in 1..n |-> hsls[x].l \div 20],
         R |-> [x \in 1..n |-> roleOf(hsls[x])],
         N |-> Cardinality({x \in 1..n : hsls[x].s < 12}),
         C |-> (maxL - minL) \div 20]

\* the signature string, kept as the record of the fields it joins
calculatePaletteSignature(colors) ==
    LET n     == Len(colors)
        hsls  == [x \in 1..n |-> hslOf(colors[x])]
        ls    == {hsls[x].l : x \in 1..n}
        minL  == IF n = 0 THEN 100 ELSE CHOOSE v \in ls : \A w \in ls : v <= w
        maxL  == IF n = 0 THEN 0 ELSE CHOOSE v \in ls : \A w \in ls : v >= w
        chrom == [x \in 1..n |-> ~(hsls[x].s < 12)]
        hueBuckets == Filter([x \in 1..n |-> hsls[x].h \div 15], chrom)
        satBuckets == [x \in 1..n |-> hsls[x].s \div 20]
        lumBuckets == [x \in 1..n |-> hsls[x].l \div 20]
        roles      == [x \in 1..n |-> roleOf(hsls[x])]
    IN  [H |-> SortSeq(hueBuckets, <),
         S |-> SortSeq(satBuckets, <),
         L |-> SortSeq(lumBuckets, <),
         R |-> SortSeq(roles, LAMBDA a, b : RoleRank(a) < RoleRank(b)),
         N |-> Cardinality({x \in 1..n : hsls[x].s < 12}),
         C |-> (maxL - minL) \div 20]

\* ------------------------------------------------------ visual progression

\* Array.prototype.sort with the comparator key(a) - key(b): a stable sort
\* of the pairs [key, item]; x goes after every element whose key is not
\* larger

\* an insertion that ignores the keys
insertFirst(sorted, x, kx) == <<[key |-> kx, item |-> x]>> \o sorted

RECURSIVE insertByKey(_, _, _)
insertByKey(sorted, x, kx) ==
    IF sorted = <<>> THEN <<[key |-> kx, item |-> x]>>
    ELSE IF Head(sorted).key <= kx
    THEN <<Head(sorted)>> \o insertByKey(Tail(sorted), x, kx)
    ELSE <<[key |-> kx, item |-> x]>> \o sorted

RECURSIVE sortPairs(_, _, _)
sortPairs(seq, keys, n) ==
    IF n = 0 THEN <<>>
    ELSE insertByKey(sortPairs(seq, keys, n - 1), seq[n], keys[n])

sortByKey(seq, keys) ==
    LET pairs == sortPairs(seq, keys, Len(seq))
    IN  [k \in 1..Len(seq) |-> pairs[k].item]

\* the forward hue step of the gap loop: next - curr, plus 360 when negative
hueStep(curr, next) == IF next - curr < 0 THEN next - curr + 360 ELSE next - curr

\* a gap loop that never finds a step
gapNone(hues, idx, maxGap, gapIndex) == gapIndex

\* the gap loop from index idx (from 0) on: the index of the first largest step
RECURSIVE gapScan(_, _, _, _)
gapScan(hues, idx, maxGap, gapIndex) ==
    IF idx >= Len(hues) THEN gapIndex
    ELSE LET diff == hueStep(hues[idx + 1], hues[((idx + 1) % Len(hues)) + 1])
         IN  IF diff > maxGap
             THEN gapScan(hues, idx + 1, diff, idx)
             ELSE gapScan(hues, idx + 1, maxGap, gapIndex)

\* the chromatic items in hue order, rotated to start after the largest gap
rotateAtGap(chromatic) ==
    IF chromatic = <<>> THEN <<>>
    ELSE LET n        == Len(chromatic)
             hues     == [x \in 1..n |-> chromatic[x].hsl.h]
             gapIndex == gapScan(hues, 0, 0, 0)
             startIdx == (gapIndex + 1) % n
         IN  SubSeq(chromatic, startIdx + 1, n) \o SubSeq(chromatic, 1, startIdx)

sortColorsByVisualProgression(colors) ==
    LET n          == Len(colors)
        withVals   == [x \in 1..n |-> [data |-> colors[x], hsl |-> hslOf(colors[x])]]
        grey       == [x \in 1..n |-> withVals[x].hsl.s < 12]
        achromatic == Filter(withVals, grey)
        chromatic  == Filter(withVals, [x \in 1..n |-> ~grey[x]])
        byL        == sortByKey(achromatic, [x \in 1..Len(achromatic) |-> achromatic[x].hsl.l])
        byH        == sortByKey(chromatic, [x \in 1..Len(chromatic) |-> chromatic[x].hsl.h])
        rotated    == rotateAtGap(byH)
    IN  [x \in 1..Len(byL) |-> byL[x].data] \o [x \in 1..Len(rotated) |-> rotated[x].data]


\* ------------------------------------------------------- post-processing

\* the isWashedOut branch: a deep anchor at index 0 and, from four colours
\* on, a vibrant accent at the last index; draws k to k + 2
injectAnchor(hsls, k) ==
    LET len == Len(hsls)
        anchored == [hsls EXCEPT ![1] = [h |-> @.h, s |-> Max2(@.s, 50),
                                         l |-> randomInt(15, 30, k)]]
    IN  IF len >= 4
        THEN [anchored EXCEPT ![len] = [h |-> @.h,
                                        s |-> randomInt(80, 100, k + 2),
                                        l |-> randomInt(45, 60, k + 1)]]
        ELSE anchored

\* the isDull branch: a vivid pop at a random index; draws k to k + 2
injectPop(hsls, k) ==
    LET idx == randomInt(0, Len(hsls) - 1, k) + 1
    IN  [hsls EXCEPT ![idx] = [h |-> @.h, s |-> randomInt(85, 100, k + 1),
                               l |-> randomInt(50, 65, k + 2)]]

\* the first index (from 1) whose lightness is v
firstIndexOf(hsls, v) ==
    CHOOSE x \in 1..Len(hsls) : hsls[x].l = v /\ \A y \in 1..(x - 1) : hsls[y].l # v

\* the isFlat branch: push the entry at minIdx down and the one at maxIdx up
stretchContrast(hsls, minIdx, maxIdx) ==
    LET darker == IF hsls[minIdx].l > 20
                  THEN [hsls EXCEPT ![minIdx].l = Max2(5, @ - 25)]
                  ELSE hsls
    IN  IF darker[maxIdx].l < 85
        THEN [darker EXCEPT ![maxIdx].l = Min2(98, @ + 15)]
        ELSE darker

\* hsls.map(h => createColorData(rgbToHex(hslToRgb(h))))
rebuild(hsls) ==
    [x \in 1..Len(hsls) |->
        LET rgb == hslToRgb(hsls[x].h, hsls[x].s, hsls[x].l)
        IN  createColorData(rgbToHex(rgb.r, rgb.g, rgb.b))]

\* the metrics and the three branches, on the measured hsls of pal, whose
\* least and greatest lightness are minL and maxL
enforceOn(pal, hsls, minL, maxL, k) ==
    LET len == Len(pal)
        washedOutCount == Cardinality({x \in 1..len : hsls[x].l > 75 /\ hsls[x].s < 70})
        isWashedOut == 10 * washedOutCount >= 7 * len
        dullCount == Cardinality({x \in 1..len : hsls[x].s < 30})
        isDull == 10 * dullCount >= 8 * len
        isFlat == maxL - minL < 25
        out == IF isWashedOut THEN injectAnchor(hsls, k)
               ELSE IF isDull THEN injectPop(hsls, k)
               ELSE IF isFlat
               THEN stretchContrast(hsls, firstIndexOf(hsls, minL), firstIndexOf(hsls, maxL))
               ELSE hsls
        \* every push of stretchContrast changes a lightness
        modified == isWashedOut \/ isDull \/ out # hsls
    IN  [palette |-> IF modified THEN rebuild(out) ELSE pal,
         n |-> IF isWashedOut THEN (IF len >= 4 THEN 3 ELSE 1)
               ELSE IF isDull THEN 3 ELSE 0]

\* enforceContrastAndVibrancy, reading its draws from draw k on; n is the
\* number of draws it made
enforceContrastAndVibrancy(pal, k) ==
    IF Len(pal) < 2 THEN [palette |-> pal, n |-> 0]
    ELSE LET hsls == [x \in 1..Len(pal) |-> hslOf(pal[x])]
             ls   == {hsls[x].l : x \in 1..Len(pal)}
         IN  enforceOn(pal, hsls,
                       CHOOSE v \in ls : \A w \in ls : v <= w,
                       CHOOSE v \in ls : \A w \in ls : v >= w, k)

\* the Fisher-Yates loop from index idx (0-based) down to 1, reading the
\* stream r from draw k on
RECURSIVE shuffle(_, _, _, _)
shuffle(seq, idx, r, k) ==
    IF idx <= 0 THEN seq
    ELSE LET j == (Draw(r, k) * (idx + 1)) \div RandDen
         IN  shuffle([seq EXCEPT ![idx + 1] = seq[j + 1], ![j + 1] = seq[idx + 1]],
                     idx - 1, r, k + 1)

\* a slice that keeps every element
sliceNothing(seq, end) == seq

\* Array.prototype.slice(0, end): a negative end counts from the back
slice0(seq, end) ==
    LET len  == Len(seq)
        stop == IF end < 0 THEN Max2(len + end, 0) ELSE Min2(end, len)
    IN  SubSeq(seq, 1, stop)


\* ------------------------------------------------------ colour insertion

\* the denominator of progress = i / (count - 1 || 1)
progressDen == IF count > 1 THEN count - 1 ELSE 1

\* 0.618033988749895 * 360 = 222.4922... degrees, kept as GoldenStep / GoldenDen
GoldenDen == 100

GoldenStep == 22249

\* hue is counted in 1/hUnit degrees while a candidate palette is built
hUnit ==
    IF mode = "random" /\ st.strategy = "golden-ratio" THEN GoldenDen
    ELSE IF mode = "random" /\ st.strategy = "complex-rhythm" THEN 2
    ELSE IF mode = "random" /\ st.strategy = "polychrome" THEN Max2(count, 1)
    ELSE IF mode = "warm-earth" THEN progressDen
    ELSE IF mode = "analogous" THEN 2
    ELSE 1

\* saturation and lightness are counted in 1/slUnit percent
slUnit ==
    IF mode = "random" /\ st.strategy = "monochromatic-texture" THEN Max2(count, 1)
    ELSE IF mode = "warm-earth" \/ mode = "monochromatic" THEN progressDen
    ELSE 1

\* addColor(h, s, l) against the accepted colours pcs and the hex history;
\* k is the draw the history nudge would read
addColor(pcs, history, h0, s0, l0, k) ==
    LET hu == hUnit
        su == slUnit
        h  == h0 % (360 * hu)
        s  == clamp(s0, 0, 100 * su)
        l  == clamp(l0, 5 * su, 98 * su)
        rejected == \E x \in 1..Len(pcs) :
                        areColorsTooSimilar(h, s, l, pcs[x].h, pcs[x].s, pcs[x].l, hu, su)
        rgb  == hslToRgbIn(h, s, l, hu, su)
        hex  == rgbToHex(rgb.r, rgb.g, rgb.b)
        hit  == hex \in Range(history)
        l2   == clamp(l + (IF chance(50, k) THEN 5 * su ELSE -5 * su), 5 * su, 95 * su)
        rgb2 == hslToRgbIn(h, s, l2, hu, su)
        hex2 == rgbToHex(rgb2.r, rgb2.g, rgb2.b)
    IN  IF rejected
        THEN [ok |-> FALSE, h |-> h, s |-> s, l |-> l, hex |-> <<>>, n |-> 0]
        ELSE IF hit
        THEN [ok |-> TRUE, h |-> h, s |-> s, l |-> l2, hex |-> hex2, n |-> 1]
        ELSE [ok |-> TRUE, h |-> h, s |-> s, l |-> l, hex |-> hex, n |-> 0]

\* safeAddColor: the candidate, then lightness + 20, then hue + 30; when
\* all three are rejected nothing is added
safeAddColor(pcs, history, h, s, l, k) ==
    LET first  == addColor(pcs, history, h, s, l, k)
        second == addColor(pcs, history, h, s, clamp(l + 20 * slUnit, 0, 100 * slUnit), k)
        third  == addColor(pcs, history, h + 30 * hUnit, s, l, k)
    IN  IF first.ok THEN first
        ELSE IF second.ok THEN second
        ELSE third


\* ------------------------------------------------------------- strategies

Modes == {"analogous", "monochromatic", "triadic", "complementary",
          "split-complementary", "tetradic", "compound", "shades", "random",
          "cyberpunk", "modern-ui", "retro-future", "warm-earth", "hyper-warm"}

strategies == <<"golden-ratio", "analogous-walk", "triadic-scatter",
                "neutral-pop", "high-contrast-clash",
                "monochromatic-texture", "structural-duo", "structural-trio",
                "anchor-focus", "polychrome", "divergent",
                "complex-rhythm", "cinematic">>

\* hues.push(baseH + ((i % 2) * 180) + randomInt(-10, 10)) of complementary,
\* for i = x and reading draw k
complementaryHue(b, x, k) == b.h + (x % 2) * 180 + randomInt(-10, 10, k)

\* the locals a mode sets before its loop; a field a mode does not set is 0
NoStrategy ==
    [strategy |-> "", offset |-> 0, h2 |-> 0, h3 |-> 0, warmH |-> 0,
     coolH |-> 0, step |-> 0, popIndex |-> 0, isDarkAnchor |-> FALSE,
     numAnchors |-> 0, startH |-> 0, totalShift |-> 0, startL |-> 0,
     endL |-> 0, subTheme |-> 0, brandH |-> 0, hues |-> <<>>]

\* the strategy 'random' picks, reading draws k and k + 1
pickStrategy(k) ==
    LET list == IF chance(5, k) THEN Append(strategies, "pastel-dream") ELSE strategies
    IN  list[((Rnd(k + 1) * Len(list)) \div RandDen) + 1]

\* the statements of a mode that run before its loop, for base colour b and
\* reading draws from k on: the locals they set and the number of draws
strategyInit(m, cnt, b, k) ==
    LET len == Max2(cnt, 0)
        strategy == pickStrategy(k)
        of(name) == [NoStrategy EXCEPT !.strategy = name]
        pairType == Rnd(k + 2)
        shift    == randomInt(-20, 20, k + 3)
        trioH2   == (b.h + randomInt(90, 150, k + 2)) % 360
        spreadA  == randomInt(30, 60, k)
        spreadS  == randomInt(30, 50, k)
        tetra    == <<b.h, b.h + 180, b.h + 90, b.h + 270>>
        split    == <<b.h, b.h + 180 - spreadS, b.h + 180 + spreadS>>
    IN  IF m = "random" THEN
            CASE strategy = "polychrome" ->
                    [st |-> [of(strategy) EXCEPT !.offset = randomInt(0, 360, k + 2)], n |-> 3]
              [] strategy = "divergent" ->
                    [st |-> [of(strategy) EXCEPT !.h2 = (b.h + 180) % 360], n |-> 2]
              [] strategy = "cinematic" ->
                    [st |-> [of(strategy) EXCEPT
                               !.warmH = shift + (IF pairType * 100 < 33 * RandDen THEN 25
                                                  ELSE IF pairType * 100 < 66 * RandDen THEN 340
                                                  ELSE 50),
                               !.coolH = shift + (IF pairType * 100 < 33 * RandDen THEN 195
                                                  ELSE IF pairType * 100 < 66 * RandDen THEN 160
                                                  ELSE 240)],
                     n |-> 4]
              [] strategy = "structural-duo" ->
                    [st |-> [of(strategy) EXCEPT !.h2 = (b.h + randomInt(80, 280, k + 2)) % 360],
                     n |-> 3]
              [] strategy = "structural-trio" ->
                    [st |-> [of(strategy) EXCEPT
                               !.h2 = trioH2,
                               !.h3 = (trioH2 + randomInt(90, 150, k + 3)) % 360],
                     n |-> 4]
              [] strategy = "anchor-focus" ->
                    [st |-> [of(strategy) EXCEPT !.isDarkAnchor = chance(50, k + 2),
                                                 !.numAnchors = randomInt(1, 2, k + 3)],
                     n |-> 4]
              [] strategy = "analogous-walk" ->
                    [st |-> [of(strategy) EXCEPT
                               !.step = randomInt(30, 50, k + 2)
                                        * (IF chance(50, k + 3) THEN 1 ELSE -1)],
                     n |-> 4]
              [] strategy = "neutral-pop" ->
                    [st |-> [of(strategy) EXCEPT !.popIndex = randomInt(0, cnt - 1, k + 2)],
                     n |-> 3]
              [] OTHER -> [st |-> of(strategy), n |-> 2]
        ELSE IF m = "warm-earth" THEN
            [st |-> [NoStrategy EXCEPT !.startH = randomInt(350, 390, k) % 360,
                                       !.totalShift = randomInt(30, 60, k + 1),
                                       !.startL = randomInt(15, 25, k + 2),
                                       !.endL = randomInt(65, 85, k + 3)],
             n |-> 4]
        ELSE IF m = "cyberpunk" THEN
            [st |-> [NoStrategy EXCEPT !.subTheme = Rnd(k)], n |-> 1]
        ELSE IF m = "modern-ui" THEN
            [st |-> [NoStrategy EXCEPT !.brandH = (b.h + randomInt(0, 60, k)) % 360], n |-> 1]
        ELSE IF m \in {"hyper-warm", "retro-future", "compound", "shades"} THEN
            [st |-> NoStrategy, n |-> 0]
        \* the classical modes draw every hue before the first colour is added
        ELSE IF m = "monochromatic" THEN
            [st |-> [NoStrategy EXCEPT
                       !.hues = [x \in 1..len |-> b.h + randomInt(-10, 10, k + x - 1)]],
             n |-> len]
        ELSE IF m = "analogous" THEN
            \* in half degrees: start = baseH - (count - 1) * spread / 2
            [st |-> [NoStrategy EXCEPT
                       !.hues = [x \in 1..len |->
                                   2 * b.h - (cnt - 1) * spreadA + 2 * (x - 1) * spreadA]],
             n |-> 1]
        ELSE IF m = "triadic" THEN
            [st |-> [NoStrategy EXCEPT
                       !.hues = [x \in 1..len |->
                                   b.h + (x - 1) * 120 + randomInt(-15, 15, k + x - 1)]],
             n |-> len]
        ELSE IF m = "tetradic" THEN
            [st |-> [NoStrategy EXCEPT
                       !.hues = [x \in 1..len |->
                                   tetra[((x - 1) % 4) + 1] + randomInt(-15, 15, k + x - 1)]],
             n |-> len]
        ELSE IF m = "split-complementary" THEN
            [st |-> [NoStrategy EXCEPT
                       !.hues = [x \in 1..len |->
                                   split[((x - 1) % 3) + 1] + randomInt(-10, 10, k + x)]],
             n |-> len + 1]
        ELSE
            [st |-> [NoStrategy EXCEPT
                       !.hues = [x \in 1..len |-> complementaryHue(b, x - 1, k + x - 1)]],
             n |-> len]


\* the number of safeAddColor calls the mode makes before the filler loop:
\* cyberpunk's first two sub-themes and modern-ui add their fixed colours
\* whatever count is
strategyCalls ==
    IF mode = "modern-ui" THEN Max2(count, 4)
    ELSE IF mode = "cyberpunk" /\ st.subTheme * 100 < 66 * RandDen THEN Max2(count, 1)
    ELSE Max2(count, 0)

Color(h, s, l, n) == [h |-> h, s |-> s, l |-> l, n |-> n]

\* the arguments of the mode's safeAddColor call number idx (from 0), in
\* units of 1/hUnit degrees and 1/slUnit percent, reading draws from k on;
\* n is the number of draws made
strategyColor(idx, k) ==
    LET hu == hUnit
        su == slUnit
        b  == base
        v  == vibe
        sVibe(d) == randomInt(v.sMin, v.sMax, d)
        lVibe(d) == randomInt(v.lMin, v.lMax, d)
        isWarm   == chance(40, k)
        trio     == <<b.h, st.h2, st.h3>>
        compound == <<b.h, (b.h + 180) % 360, (b.h + 30) % 360,
                      (b.h + 210) % 360, (b.h + 150) % 360>>
        hyperH   == randomInt(320, 410, k) % 360
        cyber    == st.subTheme * 100
    IN  IF mode = "random" THEN
            CASE st.strategy = "polychrome" ->
                    \* slice = 360 / count
                    Color(hu * (st.offset + randomInt(-20, 20, k)) + idx * 360,
                          randomInt(50, 95, k + 1), randomInt(30, 80, k + 2), 3)
              [] st.strategy = "divergent" ->
                    Color((IF idx % 2 = 0 THEN b.h ELSE st.h2) + randomInt(-40, 40, k),
                          randomInt(40, 90, k + 1), randomInt(20, 80, k + 2), 3)
              [] st.strategy = "complex-rhythm" ->
                    \* step = 137.5
                    Color(2 * b.h + idx * 275,
                          randomInt(v.sMin, Min2(100, v.sMax + 20), k), lVibe(k + 1), 2)
              [] st.strategy = "cinematic" ->
                    Color((IF isWarm THEN st.warmH ELSE st.coolH) + randomInt(-15, 15, k + 1),
                          randomInt(50, 90, k + 2),
                          IF isWarm THEN randomInt(50, 70, k + 3) ELSE randomInt(20, 50, k + 3),
                          4)
              [] st.strategy = "structural-duo" ->
                    Color((IF 2 * idx < count THEN b.h ELSE st.h2) + randomInt(-10, 10, k),
                          sVibe(k + 1), randomInt(10, 90, k + 2), 3)
              [] st.strategy = "structural-trio" ->
                    Color(trio[(idx % 3) + 1] + randomInt(-10, 10, k),
                          randomInt(40, 90, k + 1), randomInt(30, 80, k + 2), 3)
              [] st.strategy = "anchor-focus" ->
                    IF idx < st.numAnchors
                    THEN Color(b.h, 5, IF st.isDarkAnchor THEN randomInt(5, 12, k)
                                       ELSE randomInt(90, 98, k), 1)
                    ELSE Color((b.h + idx * 50 + 60) % 360,
                               randomInt(70, 100, k), randomInt(45, 65, k + 1), 2)
              [] st.strategy = "golden-ratio" ->
                    Color((GoldenDen * b.h + idx * GoldenStep) % (360 * GoldenDen),
                          sVibe(k), lVibe(k + 1), 2)
              [] st.strategy = "analogous-walk" ->
                    Color(b.h + idx * st.step,
                          clamp(b.s + randomInt(-10, 10, k), 30, 90),
                          clamp(b.l + randomInt(-15, 15, k + 1), 30, 80), 2)
              [] st.strategy = "triadic-scatter" ->
                    Color(b.h + (idx % 3) * 120 + randomInt(-30, 30, k),
                          randomInt(60, 95, k + 1), randomInt(30, 80, k + 2), 3)
              [] st.strategy = "neutral-pop" ->
                    IF idx = st.popIndex
                    THEN Color((b.h + 180) % 360, randomInt(80, 100, k), 60, 1)
                    ELSE Color(b.h + randomInt(-20, 20, k),
                               randomInt(0, 20, k + 1), randomInt(20, 90, k + 2), 3)
              [] st.strategy = "pastel-dream" ->
                    Color((b.h + idx * 70 + randomInt(-20, 20, k)) % 360,
                          randomInt(40, 70, k + 1), randomInt(80, 94, k + 2), 3)
              [] st.strategy = "high-contrast-clash" ->
                    Color((b.h + idx * 140) % 360, randomInt(60, 90, k + 2),
                          IF chance(50, k) THEN randomInt(10, 25, k + 1)
                          ELSE randomInt(80, 95, k + 1), 3)
              [] OTHER ->
                    \* monochromatic-texture: stepL = (90 - 20) / count
                    Color(b.h + randomInt(-15, 15, k), su * randomInt(30, 80, k + 1),
                          su * (20 + randomInt(-5, 5, k + 2)) + idx * 70, 3)
        ELSE IF mode = "warm-earth" THEN
            \* progress = idx / progressDen, and hu = su = progressDen
            Color((hu * st.startH + idx * st.totalShift) % (360 * hu),
                  clamp(su * randomInt(50, 80, k) + idx * 20, 40 * su, 100 * su),
                  clamp(su * st.startL + idx * (st.endL - st.startL)
                        + su * randomInt(-5, 5, k + 1), 10 * su, 95 * su), 2)
        ELSE IF mode = "hyper-warm" THEN
            Color(hyperH, randomInt(80, 100, k + 1),
                  IF hyperH >= 40 /\ hyperH <= 70 THEN randomInt(60, 90, k + 2)
                  ELSE IF hyperH >= 10 /\ hyperH < 40 THEN randomInt(50, 75, k + 2)
                  ELSE randomInt(45, 65, k + 2), 3)
        ELSE IF mode = "cyberpunk" THEN
            IF cyber < 33 * RandDen THEN
                IF idx = 0
                THEN Color(b.h, randomInt(20, 40, k), randomInt(5, 12, k + 1), 2)
                ELSE Color((b.h + 120 + idx * 50) % 360, 100, 60, 0)
            ELSE IF cyber < 66 * RandDen THEN
                IF idx = 0
                THEN Color(0, 0, 5, 0)
                ELSE Color(b.h + randomInt(-30, 30, k),
                           randomInt(80, 100, k + 1), randomInt(30, 80, k + 2), 3)
            ELSE Color((b.h + idx * 40) % 360,
                       randomInt(80, 100, k), randomInt(40, 70, k + 1), 2)
        ELSE IF mode = "modern-ui" THEN
            CASE idx = 0 -> Color(st.brandH, randomInt(70, 90, k), randomInt(45, 60, k + 1), 2)
              [] idx = 1 -> Color(st.brandH, 5, 96, 0)
              [] idx = 2 -> Color(st.brandH, 10, 15, 0)
              [] idx = 3 -> Color((st.brandH + 180) % 360,
                                  randomInt(60, 80, k), randomInt(50, 70, k + 1), 2)
              [] OTHER -> Color(st.brandH, 5, randomInt(80, 90, k), 1)
        ELSE IF mode = "retro-future" THEN
            IF chance(40, k)
            THEN Color(b.h, randomInt(0, 5, k + 1), randomInt(75, 95, k + 2), 3)
            ELSE Color((b.h + idx * 90) % 360,
                       randomInt(80, 100, k + 1), randomInt(50, 70, k + 2), 3)
        ELSE IF mode = "compound" THEN
            Color(compound[(idx % 5) + 1] + randomInt(-10, 10, k), sVibe(k + 1), lVibe(k + 2), 3)
        ELSE IF mode = "shades" THEN
            Color(b.h + randomInt(-5, 5, k), randomInt(10, 90, k + 1), randomInt(10, 90, k + 2), 3)
        ELSE IF mode = "monochromatic" THEN
            \* startL = 15, step = (95 - 15) / progressDen, and su = progressDen
            Color(st.hues[idx + 1], su * clamp(b.s + randomInt(-10, 10, k), 0, 90),
                  su * 15 + idx * 80, 1)
        ELSE
            Color(st.hues[idx + 1], sVibe(k), lVibe(k + 1), 2)

\* the arguments of one safeAddColor call of the filler loop
fillerColor(k) ==
    Color(hUnit * randomInt(0, 360, k), slUnit * randomInt(50, 90, k + 1),
          slUnit * randomInt(40, 60, k + 2), 3)


\* ------------------------------------------------------- generatePalette

NoColor == <<>>

\* a base hue loop that stops at its first draw
firstDraw(hues, tried, k) == [h |-> randomInt(0, 360, k), n |-> tried + 1]

\* the base hue loop: draw until the hue is not recently used, at most 10
\* times; tried is the number of draws already made
RECURSIVE freshHue(_, _, _)
freshHue(hues, tried, k) ==
    LET h == randomInt(0, 360, k)
    IN  IF isHueRecentlyUsed(hues, h) /\ tried + 1 < 10
        THEN freshHue(hues, tried + 1, k + 1)
        ELSE [h |-> h, n |-> tried + 1]

\* a base selection that ignores the seed: always a fresh, registered hue
baseSelectionUnseeded(seed, v, hues, k) ==
    LET fresh == freshHue(hues, 0, k)
    IN  [h |-> fresh.h,
         s |-> randomInt(v.sMin, v.sMax, k + fresh.n),
         l |-> randomInt(v.lMin, v.lMax, k + fresh.n + 1),
         n |-> fresh.n + 2,
         hues |-> registerBaseHue(hues, fresh.h)]

\* the base colour generateCandidate starts from, for vibe v: the decoded
\* seed, or a fresh hue (draws from k on) and two draws in the vibe's ranges
baseSelection(seed, v, hues, k) ==
    LET rgb   == hexToRgb(seed)
        hsl   == rgbToHsl(rgb.r, rgb.g, rgb.b)
        fresh == freshHue(hues, 0, k)
    IN  IF seed # NoColor
        THEN [h |-> hsl.h, s |-> hsl.s, l |-> hsl.l, n |-> 0, hues |-> hues]
        ELSE [h |-> fresh.h,
              s |-> randomInt(v.sMin, v.sMax, k + fresh.n),
              l |-> randomInt(v.lMin, v.lMax, k + fresh.n + 1),
              n |-> fresh.n + 2,
              hues |-> registerBaseHue(hues, fresh.h)]

noShuffleModes == {"monochromatic", "analogous", "warm-earth", "hyper-warm"}

\* the ordering policy on the stream r from draw k on: the Fisher-Yates
\* shuffle for every mode outside noShuffleModes, else a shuffle when the mode
\* is outside noShuffleModes and chance(0.5) holds, else the order as it is.
\* n is the number of draws made
orderPalette(m, pal, r, k) ==
    IF m \notin noShuffleModes
    THEN [palette |-> shuffle(pal, Len(pal) - 1, r, k), n |-> Max2(Len(pal) - 1, 0)]
    ELSE IF m \notin noShuffleModes /\ Draw(r, k) * 100 < 50 * RandDen
    THEN [palette |-> shuffle(pal, Len(pal) - 1, r, k + 1), n |-> Max2(Len(pal), 1)]
    ELSE [palette |-> pal, n |-> 0]

\* palette.slice(0, count), then the post-processing every mode but
\* monochromatic and shades gets
postProcess(m, cnt, pal) ==
    IF m # "monochromatic" /\ m # "shades"
    THEN enforceContrastAndVibrancy(slice0(pal, cnt), 0)
    ELSE [palette |-> slice0(pal, cnt), n |-> 0]

\* the tail of generateCandidate: slice, post-processing, ordering
finalPalette(m, cnt, pal) ==
    LET post == postProcess(m, cnt, pal)
        ord  == orderPalette(m, post.palette, rand, post.n)
    IN  [palette |-> ord.palette, n |-> post.n + ord.n]

shouldCheckSignature ==
    mode \in {"random", "warm-earth", "hyper-warm"} /\ baseColor = NoColor

\* the entry of generatePalette(m, cnt, seed): the engine's side of the call
enterGeneratePalette(m, cnt, seed, tape) ==
    /\ pc = "idle"
    /\ mode' = m
    /\ count' = cnt
    /\ baseColor' = seed
    /\ rand' = [tape |-> tape, pos |-> 0]
    /\ attempt' = 0
    /\ result' = <<>>
    /\ calls' = calls + 1
    /\ pc' = "candidate"
    /\ UNCHANGED <<globalHistory, recentBaseHues, recentSignatures, vibe, base,
                   st, i, palette, paletteColors>>

\* a call generatePalette(m, cnt, seed) whose Math.random() will read tape
generatePalette(m, cnt, seed, tape) ==
    /\ enterGeneratePalette(m, cnt, seed, tape)
    /\ UNCHANGED <<probe, extractorVars, uploadVars, generatorVars>>

\* generateCandidate up to the mode's loop: vibe, base colour, the mode's locals
generateCandidate ==
    /\ pc = "candidate"
    /\ UNCHANGED <<probe, extractorVars, uploadVars, generatorVars>>
    /\ UNCHANGED <<globalHistory, recentSignatures, mode, count, baseColor,
                   attempt, result, calls>>
    /\ vibe' = getWeightedVibe(0)
    /\ \E b \in {baseSelection(baseColor, vibe', recentBaseHues, 1)} :
       \E init \in {strategyInit(mode, count, b, 1 + b.n)} :
           /\ base' = [h |-> b.h, s |-> b.s, l |-> b.l]
           /\ recentBaseHues' = b.hues
           /\ st' = init.st
           /\ rand' = Advance(1 + b.n + init.n)
    /\ palette' = <<>>
    /\ paletteColors' = <<>>
    /\ i' = 0
    /\ pc' = IF strategyCalls' > 0 THEN "strategy" ELSE "filler"

\* the effect of one safeAddColor call whose arguments are c
addToPalette(c) ==
    \E r \in {safeAddColor(paletteColors, globalHistory, c.h, c.s, c.l, c.n)} :
        /\ rand' = Advance(c.n + r.n)
        /\ IF r.ok
           THEN /\ paletteColors' = Append(paletteColors, [h |-> r.h, s |-> r.s, l |-> r.l])
                /\ palette' = Append(palette, createColorData(r.hex))
                /\ globalHistory' = registerColor(globalHistory, r.hex)
           ELSE UNCHANGED <<paletteColors, palette, globalHistory>>

\* one iteration of the mode's loop (or one of its fixed calls)
strategyStep ==
    /\ pc = "strategy"
    /\ \E c \in {strategyColor(i, 0)} : addToPalette(c)
    /\ i' = i + 1
    /\ pc' = IF i + 1 < strategyCalls THEN "strategy" ELSE "filler"
    /\ UNCHANGED <<probe, extractorVars, uploadVars, generatorVars>>
    /\ UNCHANGED <<recentBaseHues, recentSignatures, mode, count, baseColor,
                   attempt, vibe, base, st, result, calls>>

\* one iteration of while (palette.length < count)
fillerStep ==
    /\ pc = "filler"
    /\ Len(palette) < count
    /\ \E c \in {fillerColor(0)} : addToPalette(c)
    /\ UNCHANGED <<probe, extractorVars, uploadVars, generatorVars>>
    /\ UNCHANGED <<recentBaseHues, recentSignatures, pc, mode, count, baseColor,
                   attempt, vibe, base, st, i, result, calls>>

\* generateCandidate from the end of the filler loop to its return
finishCandidate ==
    /\ pc = "filler"
    /\ ~(Len(palette) < count)
    /\ \E final \in {finalPalette(mode, count, palette)} :
           /\ result' = final.palette
           /\ rand' = Advance(final.n)
    /\ pc' = "signature"
    /\ UNCHANGED <<probe, extractorVars, uploadVars, generatorVars>>
    /\ UNCHANGED <<globalHistory, recentBaseHues, recentSignatures, mode, count,
                   baseColor, attempt, vibe, base, st, i, palette, paletteColors,
                   calls>>

\* the retry loop after generateCandidate returned: retry once when the
\* signature is a recent one, else register it and return
checkSignature ==
    /\ pc = "signature"
    /\ \E sig \in {calculatePaletteSignature(result)} :
           IF shouldCheckSignature /\ attempt = 0 /\ sig \in Range(recentSignatures)
           THEN /\ attempt' = attempt + 1
                /\ pc' = "candidate"
                /\ UNCHANGED recentSignatures
           ELSE /\ recentSignatures' = IF shouldCheckSignature
                                       THEN registerSignature(recentSignatures, sig)
                                       ELSE recentSignatures
                /\ pc' = "idle"
                /\ UNCHANGED attempt
    /\ UNCHANGED <<probe, extractorVars, uploadVars, generatorVars>>
    /\ UNCHANGED <<globalHistory, recentBaseHues, mode, count, baseColor, vibe,
                   base, st, i, palette, paletteColors, result, rand, calls>>

\* the engine's module state when the module is loaded
engineInit ==
    /\ globalHistory = <<>>
    /\ recentBaseHues = <<>>
    /\ recentSignatures = <<>>
    /\ pc = "idle"
    /\ mode = "random"
    /\ count = 0
    /\ baseColor = NoColor
    /\ attempt = 0
    /\ vibe = [name |-> "vivid", sMin |-> 70, sMax |-> 100, lMin |-> 40, lMax |-> 65]
    /\ base = [h |-> 0, s |-> 0, l |-> 0]
    /\ st = NoStrategy
    /\ i = 0
    /\ palette = <<>>
    /\ paletteColors = <<>>
    /\ result = <<>>
    /\ rand = [tape |-> <<0>>, pos |-> 0]
    /\ calls = 0

\* no exported function has been applied
NoProbe == [op |-> "none", arg |-> <<>>, done |-> FALSE, val |-> <<>>]

\* useState([]), useState([]), useState(5) of the ImageExtractor component
extractorInit ==
    /\ imageData = <<>>
    /\ allCandidates = <<>>
    /\ colorCount = 5
    /\ extractorPalette = <<>>

\* useState(null) of the page; no file has been chosen
NoImage == <<>>

uploadInit ==
    /\ imageSrc = NoImage
    /\ readers = {}
    /\ loadingImages = {}

\* no setColors updater is running
NoUpdater == [active |-> FALSE, count |-> 0, locked |-> <<>>]

\* useState([]), useState(5) of the Generator component, and the generate()
\* call of the effect that runs on mount
generatorInit ==
    /\ pageColors = <<>>
    /\ pageCount = 5
    /\ timers = <<5>>
    /\ updater = NoUpdater

pagesInit == extractorInit /\ uploadInit /\ generatorInit

Init ==
    /\ engineInit
    /\ probe = NoProbe
    /\ pagesInit

\* -------------------------------------------------------- image extractor

\* culori's converter('oklch') on the colours the images below hold: l, a, b
\* and the chroma c of the Oklab value, in thousandths
oklabTable ==
    <<255, 0, 0>> :> [l |-> 628, a |-> 225, b |-> 126, c |-> 258] @@
    <<128, 128, 128>> :> [l |-> 600, a |-> 0, b |-> 0, c |-> 0] @@
    <<129, 128, 128>> :> [l |-> 601, a |-> 1, b |-> 0, c |-> 1] @@
    <<140, 128, 128>> :> [l |-> 611, a |-> 14, b |-> 4, c |-> 15] @@
    <<100, 100, 100>> :> [l |-> 503, a |-> 0, b |-> 0, c |-> 0] @@
    <<0, 0, 255>> :> [l |-> 452, a |-> -32, b |-> -312, c |-> 313] @@
    <<0, 0, 0>> :> [l |-> 0, a |-> 0, b |-> 0, c |-> 0] @@
    <<0, 0, 85>> :> [l |-> 203, a |-> -15, b |-> -140, c |-> 141] @@
    <<0, 0, 170>> :> [l |-> 334, a |-> -24, b |-> -230, c |-> 231] @@
    <<0, 85, 0>> :> [l |-> 389, a |-> -105, b |-> 81, c |-> 133] @@
    <<0, 85, 170>> :> [l |-> 458, a |-> -39, b |-> -148, c |-> 153] @@
    <<0, 170, 0>> :> [l |-> 639, a |-> -173, b |-> 132, c |-> 218] @@
    <<0, 170, 170>> :> [l |-> 668, a |-> -110, b |-> -29, c |-> 114] @@
    <<0, 255, 0>> :> [l |-> 866, a |-> -234, b |-> 179, c |-> 295] @@
    <<0, 255, 255>> :> [l |-> 905, a |-> -149, b |-> -39, c |-> 155] @@
    <<85, 0, 0>> :> [l |-> 282, a |-> 101, b |-> 57, c |-> 116] @@
    <<85, 85, 85>> :> [l |-> 450, a |-> 0, b |-> 0, c |-> 0] @@
    <<170, 0, 0>> :> [l |-> 463, a |-> 166, b |-> 93, c |-> 190] @@
    <<170, 0, 170>> :> [l |-> 518, a |-> 203, b |-> -125, c |-> 238] @@
    <<170, 85, 255>> :> [l |-> 635, a |-> 131, b |-> -202, c |-> 241] @@
    <<170, 170, 0>> :> [l |-> 714, a |-> -53, b |-> 147, c |-> 156] @@
    <<170, 170, 255>> :> [l |-> 771, a |-> 28, b |-> -117, c |-> 121] @@
    <<255, 0, 170>> :> [l |-> 660, a |-> 271, b |-> -49, c |-> 276] @@
    <<255, 170, 85>> :> [l |-> 806, a |-> 64, b |-> 126, c |-> 141] @@
    <<255, 255, 0>> :> [l |-> 968, a |-> -71, b |-> 199, c |-> 211] @@
    <<255, 255, 255>> :> [l |-> 1000, a |-> 0, b |-> 0, c |-> 0]

\* oklch(colorObj) of the averaged bin colour
oklch(r, g, b) == oklabTable[<<r, g, b>>]

\* the square of differenceEuclidean('oklch'), in thousandths: the hue term
\* 2 sqrt(c1 c2) sin(dh / 2) and the chroma term add up to the a/b distance
diffSq(x, y) == (x.l - y.l) * (x.l - y.l) + (x.a - y.a) * (x.a - y.a)
                + (x.b - y.b) * (x.b - y.b)

\* diff(x, y) < threshold, the threshold in thousandths
closerThan(x, y, threshold) == diffSq(x, y) < threshold * threshold

quantizeSize == 10

mergeThreshold == 80

outputThreshold == 120

\* Math.round(n / quantizeSize) * quantizeSize
quantize(n) == Round(n, quantizeSize) * quantizeSize

\* a test that skips no pixel
neverTransparent(px) == FALSE

\* if (imageData[i + 3] < 128) continue
isTransparent(px) == px[4] < 128

\* the binning loop over the pixels <<r, g, b, a>> of the buffer; bins keeps
\* the Map's insertion order
RECURSIVE binPixels(_, _)
binPixels(pixels, bins) ==
    IF pixels = <<>> THEN bins
    ELSE LET px  == Head(pixels)
             key == <<quantize(px[1]), quantize(px[2]), quantize(px[3])>>
             at  == {k \in 1..Len(bins) : bins[k].key = key}
         IN  IF isTransparent(px) THEN binPixels(Tail(pixels), bins)
             ELSE IF at # {}
             THEN LET k == CHOOSE k \in at : TRUE
                  IN  binPixels(Tail(pixels),
                          [bins EXCEPT ![k] = [key |-> key, r |-> @.r + px[1], g |-> @.g + px[2],
                                               b |-> @.b + px[3], count |-> @.count + 1]])
             ELSE binPixels(Tail(pixels),
                     Append(bins, [key |-> key, r |-> px[1], g |-> px[2], b |-> px[3],
                                   count |-> 1]))

\* the analyzable object of one bin
binColor(bin) ==
    LET r == Round(bin.r, bin.count)
        g == Round(bin.g, bin.count)
        b == Round(bin.b, bin.count)
    IN  [hex |-> rgbToHex(r, g, b), r |-> r, g |-> g, b |-> b, ok |-> oklch(r, g, b),
         count |-> bin.count]

\* the merging loop: c is absorbed by the first merged colour closer than
\* mergeThreshold, which takes its count
RECURSIVE mergeColors(_, _)
mergeColors(colors, merged) ==
    IF colors = <<>> THEN merged
    ELSE LET c  == Head(colors)
             at == {k \in 1..Len(merged) : closerThan(c.ok, merged[k].ok, mergeThreshold)}
         IN  IF at # {}
             THEN LET k == CHOOSE k \in at : \A j \in at : k <= j
                  IN  mergeColors(Tail(colors),
                                  [merged EXCEPT ![k].count = @ + c.count])
             ELSE mergeColors(Tail(colors), Append(merged, c))

\* frequency * chromaBonus * lightnessPenalty, times 10000 totalPixels
score(c) ==
    c.count * (1000 + 8 * c.ok.c) * (IF c.ok.l < 50 \/ c.ok.l > 980 THEN 6 ELSE 10)

\* a selection that keeps every cluster
selectAll(scored, finalCandidates) == scored

\* the distinct selection over the score-sorted list
RECURSIVE selectDistinct(_, _)
selectDistinct(scored, finalCandidates) ==
    IF scored = <<>> THEN finalCandidates
    ELSE LET c        == Head(scored)
             tooClose == \E k \in 1..Len(finalCandidates) :
                             closerThan(c.ok, finalCandidates[k].ok, outputThreshold)
             kept     == IF tooClose THEN finalCandidates ELSE Append(finalCandidates, c)
         IN  IF Len(kept) >= 20 THEN kept ELSE selectDistinct(Tail(scored), kept)

\* the clusters of the buffer after merging
mergedClusters(pixels) ==
    LET bins   == binPixels(pixels, <<>>)
        colors == [k \in 1..Len(bins) |-> binColor(bins[k])]
        sorted == sortByKey(colors, [k \in 1..Len(colors) |-> -colors[k].count])
    IN  mergeColors(sorted, <<>>)

\* the score-sorted clusters
scoredClusters(pixels) ==
    LET merged == mergedClusters(pixels)
    IN  sortByKey(merged, [k \in 1..Len(merged) |-> -score(merged[k])])

\* finalCandidates of img.onload
finalCandidatesOf(pixels) == selectDistinct(scoredClusters(pixels), <<>>)

\* the effect on [colorCount, allCandidates]: the palette it sets
paletteEffect(candidates, n) ==
    IF Len(candidates) > 0 THEN slice0(candidates, n) ELSE <<>>

\* img.onload of processImage on the pixel buffer, and the effect that follows
processImage(pixels) ==
    \E final \in {finalCandidatesOf(pixels)} :
    \E extracted \in {[k \in 1..Len(final) |-> createColorData(final[k].hex)]} :
    \E safeCount \in {Max2(2, Min2(5, Len(extracted)))} :
        /\ imageData' = pixels
        /\ allCandidates' = extracted
        /\ colorCount' = safeCount
        /\ extractorPalette' = paletteEffect(extracted, safeCount)
        /\ UNCHANGED <<engineVars, probe, generatorVars>>

\* the clear button: setImageSrc(null); setPalette([]); setAllCandidates([])
clearImage ==
    /\ imageData' = <<>>
    /\ allCandidates' = <<>>
    /\ extractorPalette' = <<>>
    /\ imageSrc' = NoImage
    /\ UNCHANGED <<colorCount, readers, loadingImages, engineVars, probe, generatorVars>>

maxAvailable == Min2(10, Len(allCandidates))

\* adjustCount(delta), and the effect that follows
adjustCount(delta) ==
    \E next \in {Max2(2, Min2(maxAvailable, colorCount + delta))} :
        /\ colorCount' = next
        /\ extractorPalette' = paletteEffect(allCandidates, next)
        /\ UNCHANGED <<imageData, allCandidates, engineVars, probe, uploadVars, generatorVars>>


\* ------------------------------------------------------------ the callers

Red == <<"#", "F", "F", "0", "0", "0", "0">>

Blue == <<"#", "3", "A", "7", "B", "C", "4">>

\* a seed of hue 210 and saturation 2
BlueGrey == <<"#", "8", "0", "8", "2", "8", "4">>

Seeds == {NoColor, Red}

\* counts run from -NegCount to MaxCount
NegCount == 2

MaxCount == 3

Alphabet == {10, 45, 60, 90, 99}

\* the draws that pick the muted vibe, the hue offsets -10 and +9, and two
\* colours of saturation 5 and 7
MutedTape == <<99, 0, 95, 0, 96, 9, 72, 50>>

Tapes ==
    {<<a>> : a \in Alphabet} \cup {<<a, b>> : a \in Alphabet, b \in Alphabet}
    \cup {MutedTape}

\* the first call after the module is loaded: every mode, with and without a seed
FirstCall ==
    \E m \in Modes, c \in (-NegCount)..MaxCount, s \in Seeds, t \in Tapes :
        calls = 0 /\ generatePalette(m, c, s, t)

Next ==
    \/ FirstCall
    \/ generateCandidate
    \/ strategyStep
    \/ fillerStep
    \/ finishCandidate
    \/ checkSignature

Spec == Init /\ [][Next]_vars

\* a session: several calls in a row on the same module
MaxCalls == 2

SessionModes == {"retro-future", "hyper-warm"}

SessionMaxCount == 3

SessionTapes == {<<10>>, <<10, 10, 10, 45>>, <<45, 10, 10>>}

SessionCall ==
    \E m \in SessionModes, c \in 2..SessionMaxCount, s \in Seeds, t \in SessionTapes :
        calls < MaxCalls /\ generatePalette(m, c, s, t)

SessionNext ==
    \/ SessionCall
    \/ generateCandidate
    \/ strategyStep
    \/ fillerStep
    \/ finishCandidate
    \/ checkSignature

SpecSession == Init /\ [][SessionNext]_vars

\* seeded monochromatic calls
MonoMaxCount == 6

MonoSeeds == {Red, Blue, BlueGrey}

MonoTapes == {<<10>>, <<60>>, <<90>>, <<10, 60>>, <<45, 10>>, <<45, 90>>}

MonoCall ==
    \E c \in 1..MonoMaxCount, s \in MonoSeeds, t \in MonoTapes :
        calls = 0 /\ generatePalette("monochromatic", c, s, t)

MonoNext ==
    \/ MonoCall
    \/ generateCandidate
    \/ strategyStep
    \/ fillerStep
    \/ finishCandidate
    \/ checkSignature

SpecMono == Init /\ [][MonoNext]_vars

\* a long run: the Generator page regenerates with the same mode and count,
\* and Math.random() is one stream that goes on from call to call
LongCalls == 34

LongModes == {"hyper-warm", "warm-earth"}

LongCounts == {2, 3}

LongTapes == {<<10, 45, 99, 60, 0, 72, 31, 88, 5, 52, 17>>,
              <<95, 20, 64, 3, 47, 81, 12, 58, 36, 70, 25, 90, 7>>}

\* the stream r from its read position on
restOf(r) == [k \in 1..Len(r.tape) |-> r.tape[((r.pos + k - 1) % Len(r.tape)) + 1]]

LongFirstCall ==
    \E m \in LongModes, c \in LongCounts, t \in LongTapes :
        calls = 0 /\ generatePalette(m, c, NoColor, t)

\* the next call of the run: the same arguments, the stream where it stands
Regenerate ==
    /\ calls > 0
    /\ calls < LongCalls
    /\ generatePalette(mode, count, baseColor, restOf(rand))

LongNext ==
    \/ LongFirstCall
    \/ Regenerate
    \/ generateCandidate
    \/ strategyStep
    \/ fillerStep
    \/ finishCandidate
    \/ checkSignature

SpecLong == Init /\ [][LongNext]_vars

\* the Generator page

\* the enabled modes of the filter
ActiveModes == {"hyper-warm", "modern-ui"}

GeneratorTapes == {<<10>>, <<45, 10, 60>>}

\* the regenerations of one run of the page
MaxRegenerations == 3

\* the card whose lock button the user clicks
LockIndexes == {1}

\* a filter that keeps no colour
noLockedColors(prev, cnt) == <<>>

\* prev.slice(0, count).filter(c => c.locked)
lockedColors(prev, cnt) ==
    LET shown == slice0(prev, cnt)
    IN  Filter(shown, [x \in 1..Len(shown) |-> shown[x].locked])

\* generate(): the timeout that will run the updater with the count of the
\* render the callback belongs to
generate(cnt) == timers' = Append(timers, cnt)

\* the oldest timeout fires: the setColors updater runs up to its call of
\* generatePalette(selectedMode, count)
TimerFires ==
    /\ timers # <<>>
    /\ ~updater.active
    /\ \E m \in ActiveModes, t \in GeneratorTapes :
           enterGeneratePalette(m, Head(timers), NoColor, t)
    /\ updater' = [active |-> TRUE, count |-> Head(timers),
                   locked |-> lockedColors(pageColors, Head(timers))]
    /\ timers' = Tail(timers)
    /\ UNCHANGED <<pageColors, pageCount, probe, extractorVars, uploadVars>>

\* the updater from the return of generatePalette on: slice, combine, sort
UpdaterReturns ==
    /\ updater.active
    /\ pc = "idle"
    /\ \E needed \in {updater.count - Len(updater.locked)} :
           pageColors' = sortColorsByVisualProgression(
                             updater.locked \o slice0(result, needed))
    /\ updater' = NoUpdater
    /\ UNCHANGED <<pageCount, timers, engineVars, probe, extractorVars, uploadVars>>

\* no handler of the page is running
PageIdle == pc = "idle" /\ ~updater.active

\* more regenerations may be asked for
MayRegenerate == calls + Len(timers) < MaxRegenerations

\* toggleLock(index) on a card the page shows
ToggleLock ==
    \E index \in LockIndexes :
        /\ PageIdle
        /\ index < Len(pageColors)
        /\ pageColors' = [pageColors EXCEPT ![index + 1].locked = ~@]
        /\ UNCHANGED <<pageCount, timers, updater, engineVars, probe, extractorVars,
                       uploadVars>>

\* handleCountChange(delta), and the effect on [count] that calls generate()
HandleCountChange ==
    \E delta \in {-1, 1} :
    \E next \in {IF pageCount + delta < 1 THEN 1
                 ELSE IF pageCount + delta > 10 THEN 10 ELSE pageCount + delta} :
        /\ PageIdle
        /\ MayRegenerate
        /\ next # pageCount
        /\ pageCount' = next
        /\ generate(next)
        /\ UNCHANGED <<pageColors, updater, engineVars, probe, extractorVars, uploadVars>>

\* the space bar: generate() of the current render
SpaceBar ==
    /\ PageIdle
    /\ MayRegenerate
    /\ generate(pageCount)
    /\ UNCHANGED <<pageColors, pageCount, updater, engineVars, probe, extractorVars,
                   uploadVars>>

GeneratorNext ==
    \/ TimerFires
    \/ generateCandidate
    \/ strategyStep
    \/ fillerStep
    \/ finishCandidate
    \/ checkSignature
    \/ UpdaterReturns
    \/ ToggleLock
    \/ HandleCountChange
    \/ SpaceBar

SpecGenerator == Init /\ [][GeneratorNext]_vars

\* a generatePalette call has returned
Returned == pc = "idle" /\ calls > 0

\* a caller of sortColorsByVisualProgression: palettes of up to MaxSortLen
\* records over greys, near-greys, both reds (hue 0 and hue 360) and others
MaxSortLen == 4

SortHexes ==
    {<<"#", "2", "0", "2", "0", "2", "0">>, <<"#", "E", "0", "E", "0", "E", "0">>,
     <<"#", "F", "F", "0", "0", "0", "0">>, <<"#", "F", "F", "0", "0", "0", "1">>,
     <<"#", "0", "0", "F", "F", "0", "0">>, <<"#", "3", "A", "7", "B", "C", "4">>}

SortColors == {createColorData(hex) : hex \in SortHexes}

RECURSIVE SeqsUpTo(_, _)
SeqsUpTo(S, n) ==
    IF n = 0 THEN {<<>>}
    ELSE LET shorter == SeqsUpTo(S, n - 1)
         IN  shorter \cup {Append(q, x) : q \in {r \in shorter : Len(r) = n - 1}, x \in S}

SortInit ==
    /\ engineInit
    /\ pagesInit
    /\ probe \in {[op |-> "sortColorsByVisualProgression", arg |-> colors,
                   done |-> FALSE, val |-> <<>>] : colors \in SeqsUpTo(SortColors, MaxSortLen)}

SortCall ==
    /\ probe.op = "sortColorsByVisualProgression"
    /\ ~probe.done
    /\ probe' = [probe EXCEPT !.done = TRUE,
                              !.val = sortColorsByVisualProgression(probe.arg)]
    /\ UNCHANGED <<engineVars, extractorVars, uploadVars, generatorVars>>

SortNext == SortCall

SpecSort == SortInit /\ [][SortNext]_vars

\* sortColorsByVisualProgression has returned
Sorted == probe.op = "sortColorsByVisualProgression" /\ probe.done

\* callers of the conversion layer

\* channel values of the round trip
Channels == {0, 1, 128, 175, 253, 255}

\* hues inside and outside 0..359, saturations and lightnesses
Hues == {-480, -120, -60, -1, 0, 60, 240, 359, 360, 480, 720}

Percents == {0, 50, 100}

\* pixel channel values the extractor reads from the canvas
PixelChannels == {0, 9, 10, 128, 249, 250, 255}

\* const round = (n) => Math.round(n / 20) * 20 of the extractor
round20(n) == Round(n, 20) * 20

Triples(S) == {<<a, b, c>> : a \in S, b \in S, c \in S}

ConvertInit ==
    /\ engineInit
    /\ pagesInit
    /\ probe \in
         {[op |-> "roundTrip", arg |-> t, done |-> FALSE, val |-> <<>>] : t \in Triples(Channels)}
         \cup {[op |-> "hslToRgb", arg |-> <<h, t[1], t[2]>>, done |-> FALSE, val |-> <<>>] :
                 h \in Hues, t \in Percents \X Percents}
         \cup {[op |-> "rgbToHex", arg |-> <<round20(t[1]), round20(t[2]), round20(t[3])>>,
                done |-> FALSE, val |-> <<>>] : t \in Triples(PixelChannels)}

\* hslToRgb(rgbToHsl(r, g, b)), channel by channel
RoundTripCall ==
    /\ probe.op = "roundTrip"
    /\ ~probe.done
    /\ \E hsl \in {rgbToHsl(probe.arg[1], probe.arg[2], probe.arg[3])} :
       \E rgb \in {hslToRgb(hsl.h, hsl.s, hsl.l)} :
           probe' = [probe EXCEPT !.done = TRUE, !.val = <<rgb.r, rgb.g, rgb.b>>]
    /\ UNCHANGED <<engineVars, extractorVars, uploadVars, generatorVars>>

HslToRgbCall ==
    /\ probe.op = "hslToRgb"
    /\ ~probe.done
    /\ \E rgb \in {hslToRgb(probe.arg[1], probe.arg[2], probe.arg[3])} :
           probe' = [probe EXCEPT !.done = TRUE, !.val = <<rgb.r, rgb.g, rgb.b>>]
    /\ UNCHANGED <<engineVars, extractorVars, uploadVars, generatorVars>>

\* createColorData(rgbToHex(r, g, b)) of the extractor: the hex and the record
RgbToHexCall ==
    /\ probe.op = "rgbToHex"
    /\ ~probe.done
    /\ \E hex \in {rgbToHex(probe.arg[1], probe.arg[2], probe.arg[3])} :
           probe' = [probe EXCEPT !.done = TRUE,
                                  !.val = [hex |-> hex, data |-> createColorData(hex)]]
    /\ UNCHANGED <<engineVars, extractorVars, uploadVars, generatorVars>>

ConvertNext ==
    \/ RoundTripCall
    \/ HslToRgbCall
    \/ RgbToHexCall

SpecConvert == ConvertInit /\ [][ConvertNext]_vars

\* callers of the engine's helpers

\* hues on both sides of the limits 10 and 30, across 0 as well
SimilarHues == {0, 5, 9, 10, 29, 30, 180, 331, 350, 359}

\* saturations on both sides of the limit 10
SimilarSats == {0, 9, 10, 30}

\* lightnesses 0, 14, 15 and 20 away from 50
SimilarLights == {30, 35, 36, 50, 64, 65}

\* channel values at both ends of the range and in the middle
HslChannels == {0, 1, 2, 127, 128, 254, 255}

\* a grey, a green, and two reds of hue 0 that differ in lightness
ResortColors ==
    {createColorData(hex) :
        hex \in {<<"#", "2", "0", "2", "0", "2", "0">>, <<"#", "0", "0", "F", "F", "0", "0">>,
                 <<"#", "F", "F", "0", "0", "0", "0">>, <<"#", "8", "0", "0", "0", "0", "0">>}}

\* palettes of up to MaxSigLen colours, each with one of its reorderings
MaxSigLen == 3

\* the reorderings of a sequence
Reorderings(seq) ==
    {[k \in 1..Len(seq) |-> seq[f[k]]] :
        f \in {g \in [1..Len(seq) -> 1..Len(seq)] :
                  \A x, y \in 1..Len(seq) : x # y => g[x] # g[y]}}

HelperInit ==
    /\ engineInit
    /\ pagesInit
    /\ probe \in
         {[op |-> "areColorsTooSimilar", arg |-> <<h1, s1, 50, h2, s2, l2>>,
           done |-> FALSE, val |-> <<>>] :
              h1 \in {0, 355}, s1 \in SimilarSats,
              h2 \in SimilarHues, s2 \in SimilarSats, l2 \in SimilarLights}
         \cup UNION {{[op |-> "calculatePaletteSignature", arg |-> <<colors, other>>,
                       done |-> FALSE, val |-> <<>>] : other \in Reorderings(colors)} :
                        colors \in SeqsUpTo(SortColors, MaxSigLen)}
         \cup {[op |-> "rgbToHsl", arg |-> t, done |-> FALSE, val |-> <<>>] :
                 t \in Triples(HslChannels)}
         \cup {[op |-> "sortTwice", arg |-> cs, done |-> FALSE, val |-> <<>>] :
                 cs \in SeqsUpTo(ResortColors, MaxSigLen)}

\* areColorsTooSimilar(h1, s1, l1, h2, s2, l2) on whole degrees and percents
SimilarCall ==
    /\ probe.op = "areColorsTooSimilar"
    /\ ~probe.done
    /\ probe' = [probe EXCEPT !.done = TRUE,
                              !.val = areColorsTooSimilar(probe.arg[1], probe.arg[2],
                                                          probe.arg[3], probe.arg[4],
                                                          probe.arg[5], probe.arg[6], 1, 1)]
    /\ UNCHANGED <<engineVars, extractorVars, uploadVars, generatorVars>>

\* calculatePaletteSignature on a palette and on a reordering of it
SignatureCall ==
    /\ probe.op = "calculatePaletteSignature"
    /\ ~probe.done
    /\ probe' = [probe EXCEPT !.done = TRUE,
                              !.val = <<calculatePaletteSignature(probe.arg[1]),
                                        calculatePaletteSignature(probe.arg[2])>>]
    /\ UNCHANGED <<engineVars, extractorVars, uploadVars, generatorVars>>

\* rgbToHsl(r, g, b) on integer channels
RgbToHslCall ==
    /\ probe.op = "rgbToHsl"
    /\ ~probe.done
    /\ probe' = [probe EXCEPT !.done = TRUE,
                              !.val = rgbToHsl(probe.arg[1], probe.arg[2], probe.arg[3])]
    /\ UNCHANGED <<engineVars, extractorVars, uploadVars, generatorVars>>

\* sortColorsByVisualProgression on a palette and again on what it returned
SortTwiceCall ==
    /\ probe.op = "sortTwice"
    /\ ~probe.done
    /\ \E once \in {sortColorsByVisualProgression(probe.arg)} :
           probe' = [probe EXCEPT !.done = TRUE,
                                  !.val = <<once, sortColorsByVisualProgression(once)>>]
    /\ UNCHANGED <<engineVars, extractorVars, uploadVars, generatorVars>>

HelperNext ==
    \/ SimilarCall
    \/ SignatureCall
    \/ RgbToHslCall
    \/ SortTwiceCall

SpecHelper == HelperInit /\ [][HelperNext]_vars

\* the user of the extractor page

MaxPixels == 3

\* pixels <<r, g, b, a>>: red, opaque and transparent; greys that share a
\* bin, merge, or are dropped by the selection; blue on both sides of the
\* alpha limit
ExtractorPixels ==
    {<<255, 0, 0, 255>>, <<255, 0, 0, 0>>, <<128, 128, 128, 255>>,
     <<129, 128, 128, 255>>, <<140, 128, 128, 255>>, <<100, 100, 100, 255>>,
     <<0, 0, 255, 127>>, <<0, 0, 255, 128>>}

\* an image of 22 colours that are pairwise further apart than outputThreshold
WideImage ==
    <<<<0, 0, 0, 255>>,
      <<0, 0, 85, 255>>,
      <<0, 0, 170, 255>>,
      <<0, 0, 255, 255>>,
      <<0, 85, 0, 255>>,
      <<0, 85, 170, 255>>,
      <<0, 170, 0, 255>>,
      <<0, 170, 170, 255>>,
      <<0, 255, 0, 255>>,
      <<0, 255, 255, 255>>,
      <<85, 0, 0, 255>>,
      <<85, 85, 85, 255>>,
      <<170, 0, 0, 255>>,
      <<170, 0, 170, 255>>,
      <<170, 85, 255, 255>>,
      <<170, 170, 0, 255>>,
      <<170, 170, 255, 255>>,
      <<255, 0, 0, 255>>,
      <<255, 0, 170, 255>>,
      <<255, 170, 85, 255>>,
      <<255, 255, 0, 255>>,
      <<255, 255, 255, 255>>>>

Images == (SeqsUpTo(ExtractorPixels, MaxPixels) \ {<<>>}) \cup {WideImage}

\* images dropped on the page while another one is shown
DroppedImages ==
    {WideImage, <<<<255, 0, 0, 255>>>>, <<<<255, 0, 0, 0>>>>,
     <<<<128, 128, 128, 255>>, <<100, 100, 100, 255>>, <<0, 0, 255, 128>>>>}

\* the first image is loaded
LoadImage ==
    \E img \in Images :
        /\ imageData = <<>>
        /\ processImage(img)
        /\ imageSrc' = img
        /\ UNCHANGED <<readers, loadingImages>>

\* an image replaces the one shown
DropImage ==
    \E img \in DroppedImages :
        /\ imageData # <<>>
        /\ processImage(img)
        /\ imageSrc' = img
        /\ UNCHANGED <<readers, loadingImages>>

\* the minus button, enabled while colorCount > 2
CountDown ==
    /\ extractorPalette # <<>>
    /\ allCandidates # <<>>
    /\ ~(colorCount <= 2)
    /\ adjustCount(-1)

\* the plus button, enabled while colorCount < maxAvailable
CountUp ==
    /\ extractorPalette # <<>>
    /\ allCandidates # <<>>
    /\ ~(colorCount >= maxAvailable)
    /\ adjustCount(1)

ClearImage == imageData # <<>> /\ clearImage

ExtractorNext ==
    \/ LoadImage
    \/ DropImage
    \/ CountDown
    \/ CountUp
    \/ ClearImage

SpecExtractor == Init /\ [][ExtractorNext]_vars

\* the extractor page with its asynchronous callbacks

\* the files the user chooses or drops
UploadImages ==
    {<<<<255, 0, 0, 255>>>>,
     <<<<0, 0, 255, 255>>, <<0, 0, 255, 255>>>>,
     <<<<128, 128, 128, 255>>, <<100, 100, 100, 255>>, <<0, 0, 255, 128>>>>}

\* handleFileChange / handleDrop: reader.readAsDataURL(file)
ChooseFile ==
    \E img \in UploadImages :
        /\ img \notin readers
        /\ readers' = readers \cup {img}
        /\ UNCHANGED <<imageSrc, loadingImages, extractorVars, engineVars, probe,
                       generatorVars>>

\* reader.onload: setImageSrc(result); processImage(result) up to img.src = src
ReaderLoaded ==
    \E img \in readers :
        /\ imageSrc' = img
        /\ readers' = readers \ {img}
        /\ loadingImages' = loadingImages \cup {img}
        /\ UNCHANGED <<extractorVars, engineVars, probe, generatorVars>>

\* img.onload of one of the images that are loading
ImageLoaded ==
    \E img \in loadingImages :
        /\ processImage(img)
        /\ loadingImages' = loadingImages \ {img}
        /\ UNCHANGED <<imageSrc, readers>>

\* the clear button, rendered while an image is shown
ClearClick == imageSrc # NoImage /\ clearImage

UploadNext ==
    \/ ChooseFile
    \/ ReaderLoaded
    \/ ImageLoaded
    \/ ClearClick

SpecUpload == Init /\ [][UploadNext]_vars

\* ------------------------------------------------------------- properties

\* the circular distance of two hues in whole degrees
hueDistance(a, b) == Min2(Abs(a - b) % 360, 360 - (Abs(a - b) % 360))

\* the HSL value of the seed of the running (or last) call
seedHsl == hslOf([hex |-> baseColor])

\* C1: a generatePalette call with count >= 1 that returns yields exactly
\* count colour records, in every mode and with or without a seed: never
\* fewer because candidates were rejected, never more because modern-ui
\* added its four fixed colours.
C1_ExactlyCount == (Returned /\ count >= 1) => Len(result) = count

\* modern-ui built four colours for a smaller count and returned count of them
C1_Witness ==
    /\ Returned
    /\ mode = "modern-ui"
    /\ count \in 1..3
    /\ Len(palette) = 4
    /\ Len(result) = count

\* C2: the filler loop ends because a safeAddColor call whose candidates are
\* all too similar to the accepted colours accepts a similar colour instead
\* of adding nothing: whenever the filler loop is about to run its body, the
\* safeAddColor call it makes adds a colour.
C2_FillerCallAccepts ==
    (pc = "filler" /\ Len(palette) < count) =>
        \E c \in {fillerColor(0)} :
            safeAddColor(paletteColors, globalHistory, c.h, c.s, c.l, c.n).ok

\* C3: a call with count > 1 returns no two colours of the same hex value.
C3_DistinctHex ==
    (Returned /\ count > 1) =>
        \A x, y \in 1..Len(result) : x # y => result[x].hex # result[y].hex

\* C4: at every point of a generation no two colours recorded as accepted
\* are too similar, the stored value of a lightness-nudged colour included.
C4_AcceptedDissimilar ==
    \A x, y \in 1..Len(paletteColors) :
        x < y => ~areColorsTooSimilar(paletteColors[x].h, paletteColors[x].s,
                                      paletteColors[x].l, paletteColors[y].h,
                                      paletteColors[y].s, paletteColors[y].l,
                                      hUnit, slUnit)

\* C5: a call with count <= 0 returns the empty palette, in every mode.
C5_EmptyForNonPositive == (Returned /\ count <= 0) => result = <<>>

ShuffleDraws == {<<a, b, c>> : a \in {0, 50, 99}, b \in {0, 50, 99}, c \in {0, 50, 99}}

\* C7: when a strict harmony mode (monochromatic, analogous, warm-earth,
\* hyper-warm) orders a palette of two or more different colours, some draws
\* make the returned order differ from the generated order.
C7_StrictModesMayShuffle ==
    (/\ pc = "filler"
     /\ ~(Len(palette) < count)
     /\ mode \in noShuffleModes
     /\ Cardinality(Range(postProcess(mode, count, palette).palette)) >= 2)
    => \E t \in ShuffleDraws :
          orderPalette(mode, postProcess(mode, count, palette).palette,
                       [tape |-> t, pos |-> 0], 0).palette
          # postProcess(mode, count, palette).palette

\* C8: a seeded monochromatic call with count >= 1 returns colours whose hues
\* are all within 15 degrees of the seed's hue and whose lightness is
\* strictly monotonic along the returned sequence.
C8_MonochromaticHueAndLightness ==
    (Returned /\ mode = "monochromatic" /\ baseColor # NoColor /\ count >= 1) =>
        /\ \A x \in 1..Len(result) : hueDistance(result[x].hsl.h, seedHsl.h) <= 15
        /\ \/ \A x \in 1..(Len(result) - 1) : result[x].hsl.l < result[x + 1].hsl.l
           \/ \A x \in 1..(Len(result) - 1) : result[x].hsl.l > result[x + 1].hsl.l

\* a seeded call of mode complementary and count 2 has returned
ComplementaryPair ==
    Returned /\ mode = "complementary" /\ count = 2 /\ baseColor # NoColor

\* C9: the hues of the two colours a seeded complementary call of count 2
\* returns differ (circularly) by 180 degrees within 20 degrees.
C9_ReturnedHueDifference ==
    ComplementaryPair =>
        /\ Len(result) = 2
        /\ hueDistance(result[1].hsl.h, result[2].hsl.h) >= 160

\* C10: for seed #FF0000 (s = 100, l = 50), mode complementary and count 2,
\* the saturation and the lightness of both returned colours are within 25
\* of the seed's.
C10_NearSeed ==
    (ComplementaryPair /\ baseColor = Red) =>
        \A x \in 1..Len(result) :
            /\ Abs(result[x].hsl.s - seedHsl.s) <= 25
            /\ Abs(result[x].hsl.l - seedHsl.l) <= 25

\* the forward step on the hue circle from hue a to hue b
forwardStep(a, b) == ((b - a) + 720) % 360

\* the number of places of seq that hold x
Occurrences(seq, x) == Cardinality({k \in 1..Len(seq) : seq[k] = x})

\* the hues of the colours of saturation 12 or more, in the order of seq
chromaticHues(seq) ==
    Filter([x \in 1..Len(seq) |-> hslOf(seq[x]).h],
           [x \in 1..Len(seq) |-> ~(hslOf(seq[x]).s < 12)])

\* C11: sortColorsByVisualProgression returns a permutation of its input
\* (same records, same multiplicity) in which every colour of saturation
\* below 12 precedes every other colour and the colours of saturation below
\* 12 are in non-decreasing lightness.
C11_PermutationGreysFirst ==
    Sorted =>
        /\ Len(probe.val) = Len(probe.arg)
        /\ \A c \in Range(probe.arg) \cup Range(probe.val) :
               Occurrences(probe.val, c) = Occurrences(probe.arg, c)
        /\ \A x, y \in 1..Len(probe.val) :
               (x < y /\ hslOf(probe.val[y]).s < 12) =>
                   /\ hslOf(probe.val[x]).s < 12
                   /\ hslOf(probe.val[x]).l <= hslOf(probe.val[y]).l

\* an input whose greys were out of order and behind a chromatic colour
C11_Witness ==
    /\ Sorted
    /\ probe.val # probe.arg
    /\ \E x, y \in 1..Len(probe.arg) :
           /\ x < y
           /\ hslOf(probe.arg[x]).s >= 12
           /\ hslOf(probe.arg[y]).s < 12
    /\ \E x, y \in 1..Len(probe.arg) :
           /\ x < y
           /\ hslOf(probe.arg[x]).s < 12
           /\ hslOf(probe.arg[y]).s < 12
           /\ hslOf(probe.arg[x]).l > hslOf(probe.arg[y]).l

\* C12: in the output of sortColorsByVisualProgression the chromatic colours
\* are a rotation of their hue-ascending order, and no forward hue step
\* between two consecutive ones is larger than the wrap-around step from
\* the last back to the first.
C12_RotationAfterLargestGap ==
    Sorted =>
        LET hues == chromaticHues(probe.val)
            n    == Len(hues)
        IN  /\ \E k \in 0..n :
                   \A x \in 1..(n - 1) :
                       x # k => hues[x] <= hues[x + 1]
            /\ \A k \in 1..(n - 1) :
                   hues[k] > hues[k + 1] => hues[n] <= hues[1]
            /\ \A x \in 1..(n - 1) :
                   forwardStep(hues[x], hues[x + 1]) <= forwardStep(hues[n], hues[1])

\* three chromatic colours of different hue that came back rotated: the
\* output starts at a hue that is not the smallest
C12_Witness ==
    /\ Sorted
    /\ Len(chromaticHues(probe.val)) >= 3
    /\ Cardinality(Range(chromaticHues(probe.val))) >= 3
    /\ \E x \in 2..Len(chromaticHues(probe.val)) :
           chromaticHues(probe.val)[x] < chromaticHues(probe.val)[1]

\* C13: hslToRgb(rgbToHsl(r, g, b)) reproduces (r, g, b) within 1 on each
\* channel, for integer channels in 0..255.
C13_RoundTripWithinOne ==
    (probe.op = "roundTrip" /\ probe.done) =>
        \A k \in 1..3 : Abs(probe.val[k] - probe.arg[k]) <= 1

\* C14: hslToRgb(h, s, l) equals hslToRgb of the hue brought into 0..359 by
\* ((h mod 360) + 360) mod 360, for hues below 0 and hues of 360 or more.
C14_HueNormalized ==
    (probe.op = "hslToRgb" /\ probe.done) =>
        \E rgb \in {hslToRgb(((probe.arg[1] % 360) + 360) % 360, probe.arg[2], probe.arg[3])} :
            probe.val = <<rgb.r, rgb.g, rgb.b>>

\* C15: rgbToHex returns '#' and exactly six hex digits that encode the
\* channels clamped into 0..255, also for the channel value 260 of the
\* extractor's quantization, and the colour record made from the hex has
\* the matching rgb field.
C15_WellFormedHex ==
    (probe.op = "rgbToHex" /\ probe.done) =>
        /\ Len(probe.val.hex) = 7
        /\ probe.val.hex[1] = "#"
        /\ \A k \in 2..7 : HexVal(probe.val.hex[k]) >= 0
        /\ probe.val.data.rgb = <<clamp(probe.arg[1], 0, 255), clamp(probe.arg[2], 0, 255),
                                  clamp(probe.arg[3], 0, 255)>>

\* the pixels of the loaded buffer that are not transparent
opaquePixels == Filter(imageData, [k \in 1..Len(imageData) |-> imageData[k][4] >= 128])

\* the sum of the counts of a sequence of bins
RECURSIVE binTotal(_)
binTotal(bins) == IF bins = <<>> THEN 0 ELSE Head(bins).count + binTotal(Tail(bins))

\* C16: an image whose pixels all have alpha below 128 gives an empty
\* candidate list and an empty displayed palette, and the pixels of alpha
\* below 128 of any image contribute to no bin: the bins are those of the
\* other pixels alone and count exactly those.
C16_TransparentPixelsIgnored ==
    (imageData # <<>>) =>
        /\ (opaquePixels = <<>>) => (allCandidates = <<>> /\ extractorPalette = <<>>)
        /\ binPixels(imageData, <<>>) = binPixels(opaquePixels, <<>>)
        /\ binTotal(binPixels(imageData, <<>>)) = Len(opaquePixels)

\* a fully transparent image of several pixels has been loaded
C16_Witness ==
    /\ Len(imageData) >= 2
    /\ opaquePixels = <<>>
    /\ allCandidates = <<>>
    /\ extractorPalette = <<>>

\* the merged cluster a kept candidate stands for
clusterOf(c) ==
    CHOOSE m \in Range(mergedClusters(imageData)) : toUpperCase(m.hex) = c.hex

\* C17: the candidates of the loaded image are at most 20, each is the
\* representative of a merged cluster of the image (so never more than the
\* clusters), they are in non-increasing score order, and no two of them
\* are closer than the output threshold 0.12.
C17_DistinctSelection ==
    (imageData # <<>>) =>
        /\ Len(allCandidates) <= 20
        /\ Len(allCandidates) <= Len(mergedClusters(imageData))
        /\ \A x \in 1..Len(allCandidates) :
               \E m \in Range(mergedClusters(imageData)) :
                   toUpperCase(m.hex) = allCandidates[x].hex
        /\ \A x, y \in 1..Len(allCandidates) :
               x < y =>
                   /\ score(clusterOf(allCandidates[x])) >= score(clusterOf(allCandidates[y]))
                   /\ ~closerThan(clusterOf(allCandidates[x]).ok,
                                  clusterOf(allCandidates[y]).ok, outputThreshold)

\* an image of more than 20 clusters gave exactly 20 candidates
C17_Witness ==
    /\ imageData # <<>>
    /\ Len(mergedClusters(imageData)) > 20
    /\ Len(allCandidates) = 20

\* C18: whenever the candidate list is not empty, the active colour count
\* is at least 2 and at most min(10, candidates.length).
C18_CountWithinCandidates ==
    (allCandidates # <<>>) =>
        (2 <= colorCount /\ colorCount <= Min2(10, Len(allCandidates)))

\* C19: every call of safeAddColor, in a mode's loop or in the filler loop,
\* adds exactly one colour to the palette under construction (a step from
\* the loops that does not return the candidate is one safeAddColor call).
C19_SafeAddAlwaysAdds ==
    [][(pc \in {"strategy", "filler"} /\ pc' # "signature") =>
          (Len(palette') = Len(palette) + 1 /\ Len(paletteColors') = Len(paletteColors) + 1)]_vars

\* the running call is check-worthy: a random generation mode and no seed
checkWorthy == mode \in {"random", "warm-earth", "hyper-warm"} /\ baseColor = NoColor

\* the history after one more signature
withSignature(sigs, sig) ==
    IF Len(sigs) + 1 > SIGNATURE_LIMIT THEN Tail(Append(sigs, sig)) ELSE Append(sigs, sig)

\* C20: a check-worthy call builds a second candidate exactly when the
\* first candidate's signature is in the signature history, never a third,
\* and appends exactly one signature, that of the palette it returns, when
\* it returns; every other call returns its first candidate and appends
\* nothing; no other step changes the signature history.
C20_RetryOnceRegisterOnce ==
    [][/\ attempt' \in {0, 1}
       /\ (pc # "signature") => recentSignatures' = recentSignatures
       /\ (pc = "signature" /\ ~checkWorthy) =>
              /\ attempt = 0
              /\ pc' = "idle"
              /\ recentSignatures' = recentSignatures
       /\ (pc = "signature" /\ checkWorthy) =>
              IF attempt = 0 /\ calculatePaletteSignature(result) \in Range(recentSignatures)
              THEN /\ pc' = "candidate"
                   /\ attempt' = 1
                   /\ recentSignatures' = recentSignatures
              ELSE /\ pc' = "idle"
                   /\ result' = result
                   /\ recentSignatures' =
                          withSignature(recentSignatures, calculatePaletteSignature(result))]_vars

\* a second call that built two candidates and registered the signature of
\* the one it returned
C20_Witness ==
    /\ Returned
    /\ checkWorthy
    /\ calls = 2
    /\ attempt = 1
    /\ Len(recentSignatures) = 2
    /\ recentSignatures[2] = calculatePaletteSignature(result)

\* a bounded first-in-first-out list after one more item: the item goes to
\* the end and the oldest item leaves once the limit is exceeded
pushEvict(seq, x, limit) ==
    IF Len(seq) + 1 > limit THEN Tail(Append(seq, x)) ELSE Append(seq, x)

\* the step accepted a colour
Accepted == pc \in {"strategy", "filler"} /\ Len(palette') = Len(palette) + 1

\* C21: the hex history never holds more than 60 entries (and none twice),
\* the base-hue history never more than 5, the signature history never more
\* than 30; a step that accepts a colour leaves its hex in the hex history,
\* appended when it is new, and a base-hue or signature registration appends
\* its item; each registration evicts the oldest-inserted entry exactly when
\* the capacity is exceeded, and no other step changes a history.
C21_BoundedFifo ==
    /\ [](/\ Len(globalHistory) <= HISTORY_LIMIT
          /\ Cardinality(Range(globalHistory)) = Len(globalHistory)
          /\ Len(recentBaseHues) <= BASE_HUE_LIMIT
          /\ Len(recentSignatures) <= SIGNATURE_LIMIT)
    /\ [][/\ IF Accepted
             THEN \E hex \in Range(globalHistory') :
                      /\ toUpperCase(hex) = palette'[Len(palette')].hex
                      /\ globalHistory' = IF hex \in Range(globalHistory) THEN globalHistory
                                          ELSE pushEvict(globalHistory, hex, HISTORY_LIMIT)
             ELSE globalHistory' = globalHistory
          /\ IF pc = "candidate" /\ baseColor = NoColor
             THEN recentBaseHues' = pushEvict(recentBaseHues, base'.h, BASE_HUE_LIMIT)
             ELSE recentBaseHues' = recentBaseHues
          /\ IF pc = "signature" /\ pc' = "idle" /\ shouldCheckSignature
             THEN recentSignatures' = pushEvict(recentSignatures,
                                                calculatePaletteSignature(result),
                                                SIGNATURE_LIMIT)
             ELSE recentSignatures' = recentSignatures]_vars

\* a call returned after more calls than the signature history holds, with
\* all three histories at their capacity
C21_Witness ==
    /\ Returned
    /\ calls > SIGNATURE_LIMIT
    /\ Len(globalHistory) = HISTORY_LIMIT
    /\ Len(recentBaseHues) = BASE_HUE_LIMIT
    /\ Len(recentSignatures) = SIGNATURE_LIMIT

\* the hue the base-hue loop draws at its attempt number a (from 1)
drawnHue(a) == randomInt(0, 360, a)

\* the attempt the base-hue loop ends with: the first one whose hue is 30
\* degrees or more from every remembered hue, the tenth when there is none
lastAttempt ==
    IF \E a \in 1..10 : ~isHueRecentlyUsed(recentBaseHues, drawnHue(a))
    THEN CHOOSE a \in 1..10 :
             /\ ~isHueRecentlyUsed(recentBaseHues, drawnHue(a))
             /\ \A e \in 1..(a - 1) : isHueRecentlyUsed(recentBaseHues, drawnHue(e))
    ELSE 10

\* C22: a candidate built without a seed draws its base hue at most 10
\* times and stops at the first draw that is 30 degrees or more (circular
\* distance) from every hue of the base-hue history: the base hue is that
\* draw (the tenth when none is), the saturation and lightness draws follow
\* it directly, and this hue is the one recorded; so the recorded hue is
\* within 30 degrees of a remembered hue only if all 10 draws were.
C22_BoundedResampling ==
    [][(pc = "candidate" /\ baseColor = NoColor) =>
          /\ base'.h = drawnHue(lastAttempt)
          /\ base'.s = randomInt(vibe'.sMin, vibe'.sMax, lastAttempt + 1)
          /\ base'.l = randomInt(vibe'.lMin, vibe'.lMax, lastAttempt + 2)
          /\ recentBaseHues' = pushEvict(recentBaseHues, base'.h, BASE_HUE_LIMIT)
          /\ (isHueRecentlyUsed(recentBaseHues, base'.h) =>
                 \A a \in 1..10 : isHueRecentlyUsed(recentBaseHues, drawnHue(a)))]_vars

\* a candidate has just recorded a base hue that is within 30 degrees of
\* the hue recorded before it: all ten draws were
C22_Witness ==
    /\ pc \in {"strategy", "filler"}
    /\ palette = <<>>
    /\ baseColor = NoColor
    /\ Len(recentBaseHues) >= 2
    /\ hueDistance(recentBaseHues[Len(recentBaseHues) - 1],
                   recentBaseHues[Len(recentBaseHues)]) < 30

\* C23: two colours that both have saturation below 10 and whose lightness
\* differs by less than 15 are judged too similar, whatever their hues are.
C23_GreysComparedOnLightness ==
    (/\ probe.op = "areColorsTooSimilar"
     /\ probe.done
     /\ probe.arg[2] < 10
     /\ probe.arg[5] < 10
     /\ Abs(probe.arg[3] - probe.arg[6]) < 15)
    => probe.val = TRUE

\* C24: calculatePaletteSignature returns the same signature for a palette
\* and for every reordering of its colours.
C24_SignatureOrderIndependent ==
    (probe.op = "calculatePaletteSignature" /\ probe.done) => probe.val[1] = probe.val[2]

\* the signature of a reordered palette that mixes a grey, a vivid and a
\* mid colour, whose roles and buckets all differ
C24_Witness ==
    /\ probe.op = "calculatePaletteSignature"
    /\ probe.done
    /\ probe.arg[1] # probe.arg[2]
    /\ probe.val[1] = probe.val[2]
    /\ Cardinality(Range(probe.val[1].R)) = 3
    /\ Cardinality(Range(probe.val[1].S)) = 3
    /\ probe.val[1].N = 1

\* the indices at which two palettes of the same length differ in hex
changedHex(before, after) == {x \in 1..Len(before) : after[x].hex # before[x].hex}

\* C25: enforceContrastAndVibrancy returns a palette of the length of its
\* input in which at most two entries differ in hex from the input; every
\* other entry keeps its exact hex.  Stated where generateCandidate applies
\* it: to the first count colours of the palette it built.
C25_AtMostTwoChanged ==
    (pc = "filler" /\ ~(Len(palette) < count)) =>
        \E before \in {slice0(palette, count)} :
        \E after \in {enforceContrastAndVibrancy(before, 0).palette} :
            /\ Len(after) = Len(before)
            /\ Cardinality(changedHex(before, after)) <= 2

\* C26: for integer channels in 0..255 rgbToHsl returns a hue h with
\* 0 <= h < 360 (never 360) and a saturation and a lightness in 0..100.
C26_HueBelow360 ==
    (probe.op = "rgbToHsl" /\ probe.done) =>
        /\ 0 <= probe.val.h /\ probe.val.h < 360
        /\ 0 <= probe.val.s /\ probe.val.s <= 100
        /\ 0 <= probe.val.l /\ probe.val.l <= 100

\* C27: a completed regeneration of the Generator page leaves exactly count
\* colours (the count it was started for, which is the page's count
\* whenever no regeneration is waiting), and every colour that was locked
\* among the first count positions before it is still there, as often, with
\* the same hex and still locked; the engine returns unlocked records only
\* and no step of the engine touches the page's colours.
C27_LockedColoursKept ==
    /\ []((timers = <<>> /\ ~updater.active) => Len(pageColors) = pageCount)
    /\ [](\A x \in 1..Len(result) : ~result[x].locked)
    /\ [][/\ (updater.active /\ ~updater'.active) =>
                /\ Len(pageColors') = updater.count
                /\ \A x \in 1..Min2(updater.count, Len(pageColors)) :
                       pageColors[x].locked =>
                           Occurrences(pageColors', pageColors[x])
                               = Occurrences(slice0(pageColors, updater.count), pageColors[x])
          /\ (pc # "idle" /\ pc' # "idle") => pageColors' = pageColors]_vars

\* a regeneration for a count other than the first one has replaced the
\* colours around a locked one
C27_Witness ==
    /\ timers = <<>>
    /\ ~updater.active
    /\ pc = "idle"
    /\ calls >= 2
    /\ pageCount # 5
    /\ Len(pageColors) = pageCount
    /\ \E x, y \in 1..Len(pageColors) : pageColors[x].locked /\ ~pageColors[y].locked

\* C28: sortColorsByVisualProgression applied to its own output returns the
\* same sequence, for every input, inputs whose chromatic colours all share
\* one hue included.
C28_SortIdempotent ==
    (probe.op = "sortTwice" /\ probe.done) => probe.val[2] = probe.val[1]

\* the hex history holds hex, compared without regard to case
inHistory(hex) == \E h \in Range(globalHistory) : toUpperCase(h) = toUpperCase(hex)

\* C29: when a generatePalette call has returned (a palette of at most 60
\* colours), the hex of every returned colour is in the hex history,
\* compared case-insensitively; and, the history having been empty before
\* the call, it holds no hex but those of the returned colours: none of a
\* colour that was built and not returned.
C29_HistoryIsReturnedHexes ==
    (Returned /\ Len(result) <= HISTORY_LIMIT) =>
        /\ \A x \in 1..Len(result) : inHistory(result[x].hex)
        /\ (calls = 1) =>
               \A h \in Range(globalHistory) :
                   \E x \in 1..Len(result) : toUpperCase(h) = result[x].hex

\* the candidate list img.onload computes for an image
candidatesOf(img) ==
    [k \in 1..Len(finalCandidatesOf(img)) |-> createColorData(finalCandidatesOf(img)[k].hex)]

\* C30: in the image extractor, whenever no file read and no image load is
\* pending, the candidate list belongs to the image the page shows: it is
\* empty when no image is shown (the user cleared it) and it is the list
\* extracted from the shown image otherwise.
C30_CandidatesOfShownImage ==
    (readers = {} /\ loadingImages = {}) =>
        allCandidates = IF imageSrc = NoImage THEN <<>> ELSE candidatesOf(imageSrc)

====
